---- MODULE Spec2Model ----
(***************************************************************************)
(* Verification model of the chess engine core: bitboard position model,   *)
(* attack queries, pseudo-legal move generation, move application          *)
(* (src/lib/chess_*.c), Zobrist hashing (src/lib/chess_hash.c) and the     *)
(* generic alpha-beta search with its transposition table                  *)
(* (src/lib/minimax.c, src/lib/obj_cache.c).                               *)
(*                                                                         *)
(* A 64-bit bitboard is modelled as the set of its set bit indexes         *)
(* (a subset of 0..63): x | y is union, x & y is intersection, ~x is the   *)
(* complement in 0..63, and a shift moves every index and drops the ones   *)
(* that leave 0..63.  castling_rights is the set of its set flag values    *)
(* (a subset of {1, 2, 4, 8}).                                             *)
(***************************************************************************)
EXTENDS Integers, Sequences, FiniteSets, TLC

VARIABLES
    start,      \* chess: the position the game started from
    pos,        \* chess: the current position (bitboard_state_t)
    prev,       \* chess: the position the last chess_apply_move was called with
    mv,         \* chess: the move the last chess_apply_move was called with
    outcome,    \* chess: "start", "accepted" or "rejected" (NULL returned)
    ply,        \* chess: number of accepted moves since the start position
    mem,        \* chess: the caller's position object and the returned pointer
                \*        when the last chess_apply_move returned
    gd,         \* search: the game descriptor in use
    api,        \* search: the entry point called, "minimax_ab" or "get_best_move"
    cache_handle,   \* search: "NULL" or "table"
    root_depth, \* search: the depth argument of the call
    stack,      \* search: the activations of minimax_ab / get_best_move
    ret,        \* search: the value returned by the last finished activation
    buckets,    \* search: the table, bucket index -> list of nodes, head first
    heap,       \* search: the game states in memory, object -> value, liveness
    result,     \* search: what the call returned (a value or a move)
    phase,      \* search: "idle", "running" or "done"
    zobrist,    \* hash: zobrist_initialized, prng_state and zobrist_keys
    state_p,    \* hash: a position handed to chess_hash_state
    state_q,    \* hash: another position handed to chess_hash_state
    hash_p,     \* hash: the last chess_hash_state(state_p), if any
    hash_q,     \* hash: the last chess_hash_state(state_q), if any
    copied,     \* hash: state_q is what chess_copy_state(state_p) returned
    test,       \* cache: the scenario of test_obj_cache.c being run
    int_cache,  \* cache: the table, bucket index -> list of nodes, head first
    cache_before,   \* cache: the table before the last call
    last_op,    \* cache: the last cache_store or cache_lookup and its result
    stored,     \* cache: key value -> the value last stored for it
    iter,       \* cache: the iterator, with what it has returned so far
    gen         \* generator: a position and what chess_get_moves and
                \*            chess_evaluate returned for it

chessVars == <<start, pos, prev, mv, outcome, ply, mem>>

searchVars == <<gd, api, cache_handle, root_depth, stack, ret, buckets, heap,
                result, phase>>

hashVars == <<zobrist, state_p, state_q, hash_p, hash_q, copied>>

cacheVars == <<test, int_cache, cache_before, last_op, stored, iter>>

genVars == <<gen>>

-----------------------------------------------------------------------------
(* Bit utilities *)

AllSquares == 0..63

Bit(sq) == {sq} \cap AllSquares

Shl(bb, n) == {s + n : s \in bb} \cap AllSquares

Shr(bb, n) == {s - n : s \in bb} \cap AllSquares

ctz(bb) == CHOOSE s \in bb : \A t \in bb : s <= t

Abs(x) == IF x < 0 THEN -x ELSE x

NOT_A_FILE == {s \in AllSquares : s % 8 # 0}

NOT_H_FILE == {s \in AllSquares : s % 8 # 7}

NOT_AB_FILE == {s \in AllSquares : s % 8 \notin {0, 1}}

NOT_HG_FILE == {s \in AllSquares : s % 8 \notin {6, 7}}

NOT_GH_FILE == {s \in AllSquares : s % 8 \notin {6, 7}}

RECURSIVE BitsAsc(_)
\* the order in which a "while (bb) { ctz; bb &= bb - 1 }" loop visits the bits
BitsAsc(bb) == IF bb = {} THEN <<>>
               ELSE LET b == ctz(bb) IN <<b>> \o BitsAsc(bb \ {b})

RECURSIVE ConcatAll(_)
ConcatAll(ss) == IF Len(ss) = 0 THEN <<>> ELSE Head(ss) \o ConcatAll(Tail(ss))

-----------------------------------------------------------------------------
(* Position model *)

EP_NONE == 255

WhiteBoards == <<"white_pawns", "white_knights", "white_bishops",
                 "white_rooks", "white_queens", "white_kings">>

BlackBoards == <<"black_pawns", "black_knights", "black_bishops",
                 "black_rooks", "black_queens", "black_kings">>

NULL == [null |-> TRUE]

\* index of the first board of `boards` (an if / else-if chain) that has `sq`
FirstBoard(state, boards, sq) ==
    LET hit == {i \in 1..Len(boards) : sq \in state[boards[i]]}
    IN  IF hit = {} THEN 0 ELSE ctz(hit)

compute_white_occ(s) ==
    s.white_pawns \cup s.white_knights \cup s.white_bishops \cup
    s.white_rooks \cup s.white_queens \cup s.white_kings

compute_black_occ(s) ==
    s.black_pawns \cup s.black_knights \cup s.black_bishops \cup
    s.black_rooks \cup s.black_queens \cup s.black_kings

compute_all_occ(s) == compute_white_occ(s) \cup compute_black_occ(s)

initialize_board ==
    [white_pawns   |-> 8..15,   black_pawns   |-> 48..55,
     white_rooks   |-> {0, 7},  black_rooks   |-> {56, 63},
     white_knights |-> {1, 6},  black_knights |-> {57, 62},
     white_bishops |-> {2, 5},  black_bishops |-> {58, 61},
     white_queens  |-> {3},     black_queens  |-> {59},
     white_kings   |-> {4},     black_kings   |-> {60},
     castling_rights |-> {1, 2, 4, 8},
     en_passant      |-> EP_NONE,
     halfmove_clock  |-> 0,
     fullmove_number |-> 1,
     current_player  |-> 1]

-----------------------------------------------------------------------------
(* Attack queries (chess_game_dynamics.c) *)

get_king_position(state, player) ==
    LET king_bb == IF player = 1 THEN state.white_kings ELSE state.black_kings
    IN  IF king_bb = {} THEN -1 ELSE ctz(king_bb)

remove_piece_from_bitboards(tempState, from_square, player) ==
    LET boards == IF player = 1 THEN WhiteBoards ELSE BlackBoards
        i == FirstBoard(tempState, boards, from_square)
    IN  IF i = 0 THEN tempState
        ELSE [tempState EXCEPT ![boards[i]] = @ \ Bit(from_square)]

simulate_position_without_piece(state, move) ==
    remove_piece_from_bitboards(state, move.from, state.current_player)

is_attacked_by_pawn(state, square, attacker_player) ==
    LET attacker_pawns == IF attacker_player = 1 THEN state.white_pawns
                          ELSE state.black_pawns
        mask == Bit(square)
    IN  IF attacker_player = 1
        THEN \/ (Shl(mask, 7) \cap attacker_pawns \cap NOT_H_FILE) # {}
             \/ (Shl(mask, 9) \cap attacker_pawns \cap NOT_A_FILE) # {}
        ELSE \/ (Shr(mask, 7) \cap attacker_pawns \cap NOT_A_FILE) # {}
             \/ (Shr(mask, 9) \cap attacker_pawns \cap NOT_H_FILE) # {}

is_attacked_by_knight(state, square, attacker_player) ==
    LET attacker_knights == IF attacker_player = 1 THEN state.white_knights
                            ELSE state.black_knights
        sq_mask == Bit(square)
        Take(shifted, fileMask) ==
            IF (shifted \cap fileMask) # {} THEN shifted ELSE {}
        knights_from_positions ==
            Take(Shl(sq_mask, 6), NOT_GH_FILE) \cup
            Take(Shr(sq_mask, 10), NOT_GH_FILE) \cup
            Take(Shl(sq_mask, 10), NOT_AB_FILE) \cup
            Take(Shr(sq_mask, 6), NOT_AB_FILE) \cup
            Take(Shl(sq_mask, 15), NOT_H_FILE) \cup
            Take(Shr(sq_mask, 17), NOT_H_FILE) \cup
            Take(Shl(sq_mask, 17), NOT_A_FILE) \cup
            Take(Shr(sq_mask, 15), NOT_A_FILE)
    IN  (knights_from_positions \cap attacker_knights) # {}

\* the (row_diff, col_diff) a step of `delta` must produce in ray_moves
RayStep(delta) ==
    CASE delta = 1  -> <<0, 1>>
      [] delta = -1 -> <<0, -1>>
      [] delta = 8  -> <<1, 0>>
      [] delta = -8 -> <<-1, 0>>
      [] delta = 7  -> <<1, -1>>
      [] delta = -7 -> <<-1, 1>>
      [] delta = 9  -> <<1, 1>>
      [] delta = -9 -> <<-1, -1>>

RECURSIVE ray_walk(_, _, _)
\* the loop of ray_moves from current_pos on
ray_walk(current_pos, delta, occupancy) ==
    LET new_pos == current_pos + delta
    IN  IF new_pos < 0 \/ new_pos > 63 THEN {}
        ELSE LET row_diff == (new_pos \div 8) - (current_pos \div 8)
                 col_diff == (new_pos % 8) - (current_pos % 8)
             IN  IF <<row_diff, col_diff>> # RayStep(delta) THEN {}
                 ELSE IF new_pos \in occupancy THEN {new_pos}
                 ELSE {new_pos} \cup ray_walk(new_pos, delta, occupancy)

ray_moves(starting_bit, delta, occupancy) ==
    ray_walk(ctz(starting_bit), delta, occupancy)

is_attacked_by_bishop_or_queen(state, square, attacker_player) ==
    LET sq_mask == Bit(square)
        attackers == IF attacker_player = 1
                     THEN state.white_bishops \cup state.white_queens
                     ELSE state.black_bishops \cup state.black_queens
        occupancy == compute_all_occ(state)
    IN  \E delta \in {9, 7, -7, -9} :
            (ray_moves(sq_mask, delta, occupancy) \cap attackers) # {}

is_attacked_by_rook_or_queen(state, square, attacker_player) ==
    LET sq_mask == Bit(square)
        attackers == IF attacker_player = 1
                     THEN state.white_rooks \cup state.white_queens
                     ELSE state.black_rooks \cup state.black_queens
        occupancy == compute_all_occ(state)
    IN  \E delta \in {8, -8, 1, -1} :
            (ray_moves(sq_mask, delta, occupancy) \cap attackers) # {}

is_attacked_by_king(state, square, attacker_player) ==
    LET attacker_king == IF attacker_player = 1 THEN state.white_kings
                         ELSE state.black_kings
    IN  IF attacker_king = {} THEN FALSE
        ELSE LET k_pos == ctz(attacker_king)
             IN  /\ Abs((k_pos \div 8) - (square \div 8)) <= 1
                 /\ Abs((k_pos % 8) - (square % 8)) <= 1

is_square_attacked(state, square, attacker_player) ==
    \/ is_attacked_by_pawn(state, square, attacker_player)
    \/ is_attacked_by_knight(state, square, attacker_player)
    \/ is_attacked_by_bishop_or_queen(state, square, attacker_player)
    \/ is_attacked_by_rook_or_queen(state, square, attacker_player)
    \/ is_attacked_by_king(state, square, attacker_player)

is_king_in_check(state, player) ==
    LET king_pos == get_king_position(state, player)
    IN  IF king_pos = -1 THEN FALSE
        ELSE \/ is_attacked_by_pawn(state, king_pos, -player)
             \/ is_attacked_by_knight(state, king_pos, -player)
             \/ is_attacked_by_bishop_or_queen(state, king_pos, -player)
             \/ is_attacked_by_rook_or_queen(state, king_pos, -player)
             \/ is_attacked_by_king(state, king_pos, -player)

is_move_pinned(state, move) ==
    IF get_king_position(state, state.current_player) = -1 THEN FALSE
    ELSE is_king_in_check(simulate_position_without_piece(state, move),
                          state.current_player)

-----------------------------------------------------------------------------
(* Move application (chess_game_dynamics.c) *)

\* add_move: the chess_move_t it appends
Move(from, to, promotion, is_castling, is_en_passant) ==
    [from |-> from, to |-> to, promotion |-> promotion,
     is_castling |-> is_castling, is_en_passant |-> is_en_passant]

\* a faulty castling: the king's bit is set on the destination but never
\* cleared on the origin square
apply_castling_keeping_origin(new_state, move) ==
    LET is_white_king == move.from \in new_state.white_kings
        kingBoard == IF is_white_king THEN "white_kings" ELSE "black_kings"
    IN  [new_state EXCEPT ![kingBoard] = @ \cup Bit(move.to)]

apply_castling(new_state, move) ==
    LET from == move.from
        to == move.to
        is_white_king == from \in new_state.white_kings
        is_black_king == from \in new_state.black_kings
        rook ==
            IF is_white_king
            THEN IF from = 4 /\ to = 6 THEN <<7, 5>>
                 ELSE IF from = 4 /\ to = 2 THEN <<0, 3>>
                 ELSE <<-1, -1>>
            ELSE IF is_black_king
            THEN IF from = 60 /\ to = 62 THEN <<63, 61>>
                 ELSE IF from = 60 /\ to = 58 THEN <<56, 59>>
                 ELSE <<-1, -1>>
            ELSE <<-1, -1>>
        kingBoard == IF is_white_king THEN "white_kings" ELSE "black_kings"
        rookBoard == IF is_white_king THEN "white_rooks" ELSE "black_rooks"
        kingMoved == [new_state EXCEPT
                        ![kingBoard] = (@ \ Bit(from)) \cup Bit(to)]
    IN  IF ~is_white_king /\ ~is_black_king THEN new_state
        ELSE IF rook[1] # -1 /\ rook[2] # -1
        THEN [kingMoved EXCEPT
                ![rookBoard] = (@ \ Bit(rook[1])) \cup Bit(rook[2])]
        ELSE kingMoved

apply_en_passant(new_state, move) ==
    LET is_white_pawn == move.from \in new_state.white_pawns
        is_black_pawn == move.from \in new_state.black_pawns
        captured_square == IF is_white_pawn THEN move.to - 8 ELSE move.to + 8
    IN  IF ~is_white_pawn /\ ~is_black_pawn THEN new_state
        ELSE IF is_white_pawn
        THEN [new_state EXCEPT
                !.white_pawns = (@ \ Bit(move.from)) \cup Bit(move.to),
                !.black_pawns = @ \ Bit(captured_square)]
        ELSE [new_state EXCEPT
                !.black_pawns = (@ \ Bit(move.from)) \cup Bit(move.to),
                !.white_pawns = @ \ Bit(captured_square)]

\* a faulty regular move: the piece is moved but a piece captured on the
\* destination square is left on its board
apply_regular_move_without_capture(new_state, move) ==
    LET boards == WhiteBoards \o BlackBoards
        i == FirstBoard(new_state, boards, move.from)
    IN  IF i = 0 THEN [st |-> new_state, flag |-> FALSE]
        ELSE [st   |-> [new_state EXCEPT
                          ![boards[i]] = (@ \ Bit(move.from)) \cup Bit(move.to)],
              flag |-> i \in {1, 7}]

\* returns the mutated state and the was_pawn_or_capture flag
apply_regular_move(new_state, move) ==
    LET boards == WhiteBoards \o BlackBoards
        i == FirstBoard(new_state, boards, move.from)
        is_white == i <= 6
        lifted == [new_state EXCEPT ![boards[i]] = @ \ Bit(move.from)]
        enemy == IF is_white THEN BlackBoards ELSE WhiteBoards
        j == FirstBoard(lifted, enemy, move.to)
        captured == j # 0
        taken == IF captured
                 THEN [lifted EXCEPT ![enemy[j]] = @ \ Bit(move.to)]
                 ELSE lifted
    IN  IF i = 0 THEN [st |-> new_state, flag |-> FALSE]
        ELSE [st   |-> [taken EXCEPT ![boards[i]] = @ \cup Bit(move.to)],
              flag |-> (i \in {1, 7}) \/ captured]

handle_promotion(new_state, move) ==
    LET is_white_pawn == move.to \in new_state.white_pawns
        is_black_pawn == move.to \in new_state.black_pawns
        k == CASE move.promotion = 1 -> 2
               [] move.promotion = 2 -> 3
               [] move.promotion = 3 -> 4
               [] OTHER -> 5
    IN  IF ~is_white_pawn /\ ~is_black_pawn THEN new_state
        ELSE IF is_white_pawn
        THEN [new_state EXCEPT !.white_pawns = @ \ Bit(move.to),
                               ![WhiteBoards[k]] = @ \cup Bit(move.to)]
        ELSE [new_state EXCEPT !.black_pawns = @ \ Bit(move.to),
                               ![BlackBoards[k]] = @ \cup Bit(move.to)]

update_castling_rights(new_state, move) ==
    LET is_white_king == move.from \in new_state.white_kings
        is_black_king == move.from \in new_state.black_kings
        is_white_rook_from == move.from \in new_state.white_rooks
        is_white_rook_to == move.to \in new_state.white_rooks
        is_black_rook_from == move.from \in new_state.black_rooks
        is_black_rook_to == move.to \in new_state.black_rooks
        cleared ==
            (IF is_white_king THEN {1, 2} ELSE {}) \cup
            (IF is_black_king THEN {4, 8} ELSE {}) \cup
            (IF is_white_rook_from /\ move.from = 0 THEN {2} ELSE {}) \cup
            (IF is_white_rook_from /\ move.from = 7 THEN {1} ELSE {}) \cup
            (IF is_black_rook_from /\ move.to = 0 /\ is_white_rook_to
                THEN {2} ELSE {}) \cup
            (IF is_black_rook_from /\ move.to = 7 /\ is_white_rook_to
                THEN {1} ELSE {}) \cup
            (IF is_black_rook_from /\ move.from = 56 THEN {8} ELSE {}) \cup
            (IF is_black_rook_from /\ move.from = 63 THEN {4} ELSE {}) \cup
            (IF is_white_rook_from /\ move.to = 56 /\ is_black_rook_to
                THEN {8} ELSE {}) \cup
            (IF is_white_rook_from /\ move.to = 63 /\ is_black_rook_to
                THEN {4} ELSE {})
    IN  [new_state EXCEPT !.castling_rights = @ \ cleared]

update_en_passant(new_state, move) ==
    LET is_white_pawn == move.from \in new_state.white_pawns
        is_black_pawn == move.from \in new_state.black_pawns
        diff == move.to - move.from
    IN  IF ~is_white_pawn /\ ~is_black_pawn
        THEN [new_state EXCEPT !.en_passant = EP_NONE]
        ELSE IF is_white_pawn /\ diff = 16
        THEN [new_state EXCEPT !.en_passant = (move.from + 8) % 256]
        ELSE IF is_black_pawn /\ diff = -16
        THEN [new_state EXCEPT !.en_passant = (move.from - 8) % 256]
        ELSE [new_state EXCEPT !.en_passant = EP_NONE]

update_move_counters(new_state, was_capture_or_pawn_move) ==
    [new_state EXCEPT
        !.halfmove_clock = IF was_capture_or_pawn_move THEN 0
                           ELSE (@ + 1) % 256,
        !.fullmove_number = IF new_state.current_player = -1
                            THEN (@ + 1) % 256 ELSE @]

\* the squares written to squares[], in order; its length is the return value
get_castling_squares(from, to) ==
    IF from = 4 /\ to = 6 THEN <<5>>
    ELSE IF from = 4 /\ to = 2 THEN <<1, 3>>
    ELSE IF from = 60 /\ to = 62 THEN <<61>>
    ELSE IF from = 60 /\ to = 58 THEN <<57, 59>>
    ELSE <<>>

is_legal_castle(temp_state, ch_move) ==
    LET current_player == temp_state.current_player
        attacker == -current_player
        squares == get_castling_squares(ch_move.from, ch_move.to)
    IN  IF is_king_in_check(temp_state, current_player) THEN FALSE
        ELSE IF Len(squares) = 0 THEN FALSE
        ELSE \A i \in 1..Len(squares) :
                ~is_square_attacked(temp_state, squares[i], attacker)

\* step 4 of chess_apply_move: the move applied to the copy, and the
\* was_capture_or_pawn_move flag
apply_move_kind(new_state, ch_move) ==
    IF ch_move.is_castling # 0
    THEN [st |-> apply_castling(new_state, ch_move), flag |-> FALSE]
    ELSE IF ch_move.is_en_passant # 0
    THEN [st |-> apply_en_passant(new_state, ch_move), flag |-> TRUE]
    ELSE IF ch_move.promotion # 0
    THEN [st |-> handle_promotion(apply_regular_move(new_state, ch_move).st,
                                  ch_move),
          flag |-> TRUE]
    ELSE apply_regular_move(new_state, ch_move)

\* steps 5 and 6 of chess_apply_move
finish_move(old_state, applied, ch_move) ==
    LET s1 == update_castling_rights(applied.st, ch_move)
        s2 == update_en_passant(s1, ch_move)
        s3 == update_move_counters(s2, applied.flag)
    IN  [s3 EXCEPT !.current_player = -(old_state.current_player)]

chess_apply_move(old_state, ch_move) ==
    LET opp_king_bb == IF old_state.current_player = 1
                       THEN old_state.black_kings ELSE old_state.white_kings
    IN  IF is_move_pinned(old_state, ch_move) THEN NULL
        ELSE IF (opp_king_bb \cap Bit(ch_move.to)) # {} THEN NULL
        ELSE IF ch_move.is_castling # 0 /\ ~is_legal_castle(old_state, ch_move)
        THEN NULL
        ELSE LET new_state == finish_move(old_state,
                                  apply_move_kind(old_state, ch_move), ch_move)
             IN  IF is_king_in_check(new_state, -(new_state.current_player))
                 THEN NULL
                 ELSE new_state

\* The objects one call of chess_apply_move works on: *state, the caller's
\* position, *temp, the copy is_move_pinned simulates on, and *new_state, the
\* copy the move is applied to.  NULL is an object that is not allocated.
CallObjects(old_state) ==
    [state |-> old_state, temp |-> NULL, new_state |-> NULL]

\* a faulty simulation that clears the piece in the caller's position
\* instead of in a copy of it
simulate_in_place(objects, move) ==
    LET removed == remove_piece_from_bitboards(objects.state, move.from,
                                               objects.state.current_player)
    IN  [objects EXCEPT !.state = removed, !.temp = removed]

\* simulate_position_without_piece on the objects of the call: *tempState is
\* allocated, assigned *state, and the piece is cleared in *tempState
simulate_objects(objects, move) ==
    [objects EXCEPT
        !.temp = remove_piece_from_bitboards(objects.state, move.from,
                                             objects.state.current_player)]

\* is_move_pinned on the objects of the call; the copy is freed before it
\* returns
is_move_pinned_objects(objects, move) ==
    IF get_king_position(objects.state, objects.state.current_player) = -1
    THEN objects
    ELSE [simulate_objects(objects, move) EXCEPT !.temp = NULL]

\* what chess_apply_move leaves behind: the contents of the caller's
\* position object and the object the returned pointer refers to.  After
\* is_move_pinned every write goes to *new_state, which malloc returned.
chess_apply_move_objects(old_state, ch_move) ==
    LET objects == is_move_pinned_objects(CallObjects(old_state), ch_move)
        new_state == chess_apply_move(old_state, ch_move)
    IN  [state    |-> objects.state,
         returned |-> IF new_state = NULL THEN "NULL" ELSE "new_state"]

-----------------------------------------------------------------------------
(* Pseudo-legal move generation (chess_moves*.c) *)

\* a pawn destination that promotes to a queen only
PawnMoves_queen_only(from, to, last_rank) ==
    IF to \div 8 = last_rank
    THEN <<Move(from, to, 4, 0, 0)>>
    ELSE <<Move(from, to, 0, 0, 0)>>

\* the four promotion moves, or the plain move, of one pawn destination
PawnMoves(from, to, last_rank) ==
    IF to \div 8 = last_rank
    THEN <<Move(from, to, 1, 0, 0), Move(from, to, 2, 0, 0),
           Move(from, to, 3, 0, 0), Move(from, to, 4, 0, 0)>>
    ELSE <<Move(from, to, 0, 0, 0)>>

\* one "while (targets)" loop of a pawn generator; from == to - back
PawnLoop(targets, back, last_rank) ==
    LET tos == BitsAsc(targets)
    IN  ConcatAll([i \in 1..Len(tos) |->
                     PawnMoves(tos[i] - back, tos[i], last_rank)])

\* an en-passant branch without the test of the capturing pawn's rank
EnPassantMove_any_rank(shifted, ep_square, back, rank) ==
    IF (shifted \cap Bit(ep_square)) # {}
    THEN <<Move(ep_square - back, ep_square, 0, 0, 1)>>
    ELSE <<>>

\* one en-passant branch of a pawn generator
EnPassantMove(shifted, ep_square, back, rank) ==
    IF (shifted \cap Bit(ep_square)) # {} /\ (ep_square - back) \div 8 = rank
    THEN <<Move(ep_square - back, ep_square, 0, 0, 1)>>
    ELSE <<>>

generate_white_pawn_moves(state) ==
    LET pawns == state.white_pawns
        empty == AllSquares \ compute_all_occ(state)
        black_occ == compute_black_occ(state)
        single_push == Shl(pawns, 8) \cap empty
        initial_pawns == pawns \cap (8..15)
        double_push == Shl(Shl(initial_pawns, 8) \cap empty, 8) \cap empty
        dbl == BitsAsc(double_push)
        captures_right == Shl(pawns, 9) \cap NOT_A_FILE \cap black_occ
        captures_left == Shl(pawns, 7) \cap NOT_H_FILE \cap black_occ
    IN  PawnLoop(single_push, 8, 7) \o
        [i \in 1..Len(dbl) |-> Move(dbl[i] - 16, dbl[i], 0, 0, 0)] \o
        PawnLoop(captures_right, 9, 7) \o
        PawnLoop(captures_left, 7, 7) \o
        (IF state.en_passant # EP_NONE
         THEN EnPassantMove(Shl(pawns, 9), state.en_passant, 9, 4) \o
              EnPassantMove(Shl(pawns, 7), state.en_passant, 7, 4)
         ELSE <<>>)

generate_black_pawn_moves(state) ==
    LET pawns == state.black_pawns
        empty == AllSquares \ compute_all_occ(state)
        white_occ == compute_white_occ(state)
        single_push == Shr(pawns, 8) \cap empty
        initial_pawns == pawns \cap (48..55)
        double_push == Shr(Shr(initial_pawns, 8) \cap empty, 8) \cap empty
        dbl == BitsAsc(double_push)
        captures_right == Shr(pawns, 7) \cap NOT_A_FILE \cap white_occ
        captures_left == Shr(pawns, 9) \cap NOT_H_FILE \cap white_occ
    IN  PawnLoop(single_push, -8, 0) \o
        [i \in 1..Len(dbl) |-> Move(dbl[i] + 16, dbl[i], 0, 0, 0)] \o
        PawnLoop(captures_right, -7, 0) \o
        PawnLoop(captures_left, -9, 0) \o
        (IF state.en_passant # EP_NONE
         THEN EnPassantMove(Shr(pawns, 7), state.en_passant, -7, 3) \o
              EnPassantMove(Shr(pawns, 9), state.en_passant, -9, 3)
         ELSE <<>>)

\* generate_white_knight_moves / generate_black_knight_moves
generate_knight_moves(knights, own_occ) ==
    LET froms == BitsAsc(knights)
        Attacks(from) ==
            LET knight_bit == Bit(from)
            IN  (Shl(knight_bit \cap NOT_H_FILE, 17) \cup
                 Shl(knight_bit \cap NOT_A_FILE, 15) \cup
                 Shr(knight_bit \cap NOT_H_FILE, 15) \cup
                 Shr(knight_bit \cap NOT_A_FILE, 17) \cup
                 Shl(knight_bit \cap NOT_HG_FILE, 10) \cup
                 Shl(knight_bit \cap NOT_AB_FILE, 6) \cup
                 Shr(knight_bit \cap NOT_HG_FILE, 6) \cup
                 Shr(knight_bit \cap NOT_AB_FILE, 10)) \ own_occ
        Of(from) == LET tos == BitsAsc(Attacks(from))
                    IN  [i \in 1..Len(tos) |-> Move(from, tos[i], 0, 0, 0)]
    IN  ConcatAll([k \in 1..Len(froms) |-> Of(froms[k])])

\* the (dc, dr) explore_ray maps a shift to; <<0, 0>> is the default branch
RayDir(shift) ==
    CASE shift = 1  -> <<1, 0>>
      [] shift = -1 -> <<-1, 0>>
      [] shift = 8  -> <<0, 1>>
      [] shift = -8 -> <<0, -1>>
      [] shift = 7  -> <<1, 1>>
      [] shift = 9  -> <<-1, 1>>
      [] shift = -7 -> <<-1, -1>>
      [] shift = -9 -> <<1, -1>>
      [] OTHER -> <<0, 0>>

RECURSIVE explore_walk(_, _, _, _, _, _)
\* the loop of explore_ray from (col, row) on
explore_walk(from, col, row, d, own_occ, opp_occ) ==
    LET c == col + d[1]
        r == row + d[2]
        to == r * 8 + c
    IN  IF c < 0 \/ c > 7 \/ r < 0 \/ r > 7 THEN <<>>
        ELSE IF to \in own_occ THEN <<>>
        ELSE IF to \in opp_occ THEN <<Move(from, to, 0, 0, 0)>>
        ELSE <<Move(from, to, 0, 0, 0)>> \o
             explore_walk(from, c, r, d, own_occ, opp_occ)

\* explore_ray that does not stop at the mover's own pieces
explore_ray_over_own(from, shift, own_occ, opp_occ) ==
    IF RayDir(shift) = <<0, 0>> THEN <<>>
    ELSE explore_walk(from, from % 8, from \div 8, RayDir(shift),
                      {}, opp_occ)

explore_ray(from, shift, own_occ, opp_occ) ==
    IF RayDir(shift) = <<0, 0>> THEN <<>>
    ELSE explore_walk(from, from % 8, from \div 8, RayDir(shift),
                      own_occ, opp_occ)

\* a sliding-piece generator: for every piece, the rays of `shifts` in order
generate_slider_moves(pieces, shifts, own_occ, opp_occ) ==
    LET froms == BitsAsc(pieces)
    IN  ConcatAll([k \in 1..Len(froms) |->
            ConcatAll([n \in 1..Len(shifts) |->
                explore_ray(froms[k], shifts[n], own_occ, opp_occ)])])

BishopShifts == <<7, 9, -9, -7>>

RookShifts == <<1, -1, 8, -8>>

QueenShifts == <<7, 9, -7, -9, 1, -1, 8, -8>>

\* generate_king_moves with the castling path tested against the mover's own
\* pieces only
generate_king_moves_own_path(state, kings, own_occ, home, short, long) ==
    LET froms == BitsAsc(kings)
        Step(from, ok, to) ==
            IF ok /\ to \notin own_occ THEN <<Move(from, to, 0, 0, 0)>>
            ELSE <<>>
        Of(from) ==
            LET from_file == from % 8
                from_rank == from \div 8
            IN  Step(from, from_rank < 7, from + 8) \o
                Step(from, from_rank > 0, from - 8) \o
                Step(from, from_file < 7, from + 1) \o
                Step(from, from_file > 0, from - 1) \o
                Step(from, from_rank < 7 /\ from_file < 7, from + 9) \o
                Step(from, from_rank < 7 /\ from_file > 0, from + 7) \o
                Step(from, from_rank > 0 /\ from_file < 7, from - 7) \o
                Step(from, from_rank > 0 /\ from_file > 0, from - 9) \o
                (IF from = home /\ short \in state.castling_rights
                    /\ (own_occ \cap {home + 1, home + 2}) = {}
                 THEN <<Move(from, from + 2, 0, 1, 0)>> ELSE <<>>) \o
                (IF from = home /\ long \in state.castling_rights
                    /\ (own_occ \cap {home - 1, home - 2, home - 3}) = {}
                 THEN <<Move(from, from - 2, 0, 1, 0)>> ELSE <<>>)
    IN  ConcatAll([k \in 1..Len(froms) |-> Of(froms[k])])

\* generate_white_king_moves / generate_black_king_moves; home is e1 or e8,
\* short and long are the castling-right flags of the side
generate_king_moves(state, kings, own_occ, home, short, long) ==
    LET occupied == compute_all_occ(state)
        froms == BitsAsc(kings)
        Step(from, ok, to) ==
            IF ok /\ to \notin own_occ THEN <<Move(from, to, 0, 0, 0)>>
            ELSE <<>>
        Of(from) ==
            LET from_file == from % 8
                from_rank == from \div 8
            IN  Step(from, from_rank < 7, from + 8) \o
                Step(from, from_rank > 0, from - 8) \o
                Step(from, from_file < 7, from + 1) \o
                Step(from, from_file > 0, from - 1) \o
                Step(from, from_rank < 7 /\ from_file < 7, from + 9) \o
                Step(from, from_rank < 7 /\ from_file > 0, from + 7) \o
                Step(from, from_rank > 0 /\ from_file < 7, from - 7) \o
                Step(from, from_rank > 0 /\ from_file > 0, from - 9) \o
                (IF from = home /\ short \in state.castling_rights
                    /\ (occupied \cap {home + 1, home + 2}) = {}
                 THEN <<Move(from, from + 2, 0, 1, 0)>> ELSE <<>>) \o
                (IF from = home /\ long \in state.castling_rights
                    /\ (occupied \cap {home - 1, home - 2, home - 3}) = {}
                 THEN <<Move(from, from - 2, 0, 1, 0)>> ELSE <<>>)
    IN  ConcatAll([k \in 1..Len(froms) |-> Of(froms[k])])

\* a dispatcher that calls the pawn generator only
chess_get_moves_pawns_only(state) ==
    IF state.current_player = 1
    THEN generate_white_pawn_moves(state)
    ELSE generate_black_pawn_moves(state)

chess_get_moves(state) ==
    LET white_occ == compute_white_occ(state)
        black_occ == compute_black_occ(state)
    IN  IF state.current_player = 1
        THEN generate_white_pawn_moves(state) \o
             generate_knight_moves(state.white_knights, white_occ) \o
             generate_slider_moves(state.white_bishops, BishopShifts,
                                   white_occ, black_occ) \o
             generate_slider_moves(state.white_rooks, RookShifts,
                                   white_occ, black_occ) \o
             generate_slider_moves(state.white_queens, QueenShifts,
                                   white_occ, black_occ) \o
             generate_king_moves(state, state.white_kings, white_occ, 4, 1, 2)
        ELSE generate_black_pawn_moves(state) \o
             generate_knight_moves(state.black_knights, black_occ) \o
             generate_slider_moves(state.black_bishops, BishopShifts,
                                   black_occ, white_occ) \o
             generate_slider_moves(state.black_rooks, RookShifts,
                                   black_occ, white_occ) \o
             generate_slider_moves(state.black_queens, QueenShifts,
                                   black_occ, white_occ) \o
             generate_king_moves(state, state.black_kings, black_occ, 60, 4, 8)

\* 1 when chess_apply_move returns NULL for every generated move
chess_is_terminal(state) ==
    LET moves == chess_get_moves(state)
    IN  IF Len(moves) = 0 THEN 1
        ELSE IF \E i \in 1..Len(moves) : chess_apply_move(state, moves[i]) # NULL
             THEN 0
             ELSE 1

chess_evaluate(state) ==
    IF chess_is_terminal(state) = 1
    THEN LET white_check == is_king_in_check(state, 1)
             black_check == is_king_in_check(state, -1)
         IN  IF white_check THEN -99999
             ELSE IF black_check THEN 99999
             ELSE 0
    ELSE LET white_bishops == Cardinality(state.white_bishops)
             black_bishops == Cardinality(state.black_bishops)
             wscore == Cardinality(state.white_pawns) * 100
                       + Cardinality(state.white_knights) * 320
                       + white_bishops * 330
                       + Cardinality(state.white_rooks) * 500
                       + Cardinality(state.white_queens) * 900
             bscore == Cardinality(state.black_pawns) * 100
                       + Cardinality(state.black_knights) * 320
                       + black_bishops * 330
                       + Cardinality(state.black_rooks) * 500
                       + Cardinality(state.black_queens) * 900
         IN  (wscore - bscore)
             + (IF white_bishops >= 2 THEN 30 ELSE 0)
             - (IF black_bishops >= 2 THEN 30 ELSE 0)

-----------------------------------------------------------------------------
(* Zobrist hashing and position equality (chess_hash.c).  A uint64_t is    *)
(* the set of its set bit indexes, so x ^ y is the symmetric difference.   *)

Xor64(x, y) == (x \ y) \cup (y \ x)

\* the bits of a non-negative int
LowBits(n) == {i \in 0..30 : (n \div (2 ^ i)) % 2 = 1}

\* static uint64_t prng_state = 88172645463325252ULL
PRNG_STATE_0 ==
    {2, 6, 9, 11, 12, 13, 14, 16, 17, 18, 19, 20, 21, 23, 24, 25, 27, 30, 31,
     32, 34, 35, 39, 46, 48, 51, 52, 53, 56}

\* the new prng_state, which is also the value returned
next_rand64(state) ==
    LET s1 == Xor64(state, Shl(state, 13))
        s2 == Xor64(s1, Shr(s1, 7))
    IN  Xor64(s2, Shl(s2, 17))

\* the n values next_rand64 returns in a row, starting from prng_state = state
RECURSIVE rand_sequence(_, _)
rand_sequence(state, n) ==
    IF n = 0 THEN <<>>
    ELSE LET r == next_rand64(state) IN <<r>> \o rand_sequence(r, n - 1)

\* the values next_rand64 returns over consecutive loops of sizes[1],
\* sizes[2], ... iterations, starting from prng_state = state
RECURSIVE rand_blocks(_, _)
rand_blocks(state, sizes) ==
    IF sizes = <<>> THEN <<>>
    ELSE LET block == rand_sequence(state, Head(sizes))
         IN  block \o rand_blocks(block[Len(block)], Tail(sizes))

\* the statics of chess_hash.c before chess_hash_init.  zobrist_keys_t is
\* laid out as one sequence: piece_keys[12][64], castling_keys[16],
\* en_passant_keys[64], side_to_move_key
ZobristStatics == [initialized |-> 0, prng_state |-> PRNG_STATE_0, keys |-> <<>>]

\* chess_hash_init past its guard, time(NULL) returning now: the seed, then
\* the loops over 64 squares for each of the 12 pieces, the 16 castling keys,
\* the 64 en passant keys and the side key
fill_zobrist_keys(z, now) ==
    LET keys == rand_blocks(Xor64(z.prng_state, LowBits(now)),
                            [i \in 1..12 |-> 64] \o <<16, 64, 1>>)
    IN  [initialized |-> 1, prng_state |-> keys[Len(keys)], keys |-> keys]

\* chess_hash_init without "if (zobrist_initialized) return;"
chess_hash_init_again(z, now) == fill_zobrist_keys(z, now)

chess_hash_init(z, now) == IF z.initialized = 1 THEN z ELSE fill_zobrist_keys(z, now)

\* h ^= keys[idx[k]] for k = from..Len(idx)
RECURSIVE XorKeys(_, _, _, _)
XorKeys(keys, idx, from, h) ==
    IF from > Len(idx) THEN h
    ELSE XorKeys(keys, idx, from + 1, Xor64(h, keys[idx[from]]))

chess_hash_state(z, state) ==
    IF z.initialized = 0 THEN {}
    ELSE LET pieces == WhiteBoards \o BlackBoards
             piece_keys ==
                 ConcatAll([i \in 1..12 |->
                     LET sqs == BitsAsc(state[pieces[i]])
                     IN  [k \in 1..Len(sqs) |-> (i - 1) * 64 + sqs[k] + 1]])
             castling_index ==
                 (IF 1 \in state.castling_rights THEN 1 ELSE 0) +
                 (IF 2 \in state.castling_rights THEN 2 ELSE 0) +
                 (IF 4 \in state.castling_rights THEN 4 ELSE 0) +
                 (IF 8 \in state.castling_rights THEN 8 ELSE 0)
             idx == piece_keys
                    \o <<12 * 64 + castling_index + 1>>
                    \o (IF state.en_passant < 64
                        THEN <<12 * 64 + 16 + state.en_passant + 1>> ELSE <<>>)
                    \o (IF state.current_player = -1
                        THEN <<12 * 64 + 16 + 64 + 1>> ELSE <<>>)
         IN  XorKeys(z.keys, idx, 1, {})

\* a copy that leaves the en-passant square out
chess_copy_state_without_en_passant(state) ==
    [field \in DOMAIN state |->
        IF field = "en_passant" THEN EP_NONE ELSE state[field]]

\* memcpy of the whole bitboard_state_t into a new object
chess_copy_state(state) == [field \in DOMAIN state |-> state[field]]

chess_equals_state(a, b) ==
    IF /\ a.white_pawns = b.white_pawns
       /\ a.white_knights = b.white_knights
       /\ a.white_bishops = b.white_bishops
       /\ a.white_rooks = b.white_rooks
       /\ a.white_queens = b.white_queens
       /\ a.white_kings = b.white_kings
       /\ a.black_pawns = b.black_pawns
       /\ a.black_knights = b.black_knights
       /\ a.black_bishops = b.black_bishops
       /\ a.black_rooks = b.black_rooks
       /\ a.black_queens = b.black_queens
       /\ a.black_kings = b.black_kings
       /\ a.castling_rights = b.castling_rights
       /\ a.en_passant = b.en_passant
       /\ a.halfmove_clock = b.halfmove_clock
       /\ a.fullmove_number = b.fullmove_number
       /\ a.current_player = b.current_player
    THEN 1 ELSE 0

-----------------------------------------------------------------------------
(* The game behind a game_descriptor_t.  minimax.c reaches a game only     *)
(* through the callbacks of the descriptor; the descriptors modelled here  *)
(* are those of the counting game of test_minimax.c (a state is an int, a  *)
(* move adds to it), with the order of the generated moves, the evaluation *)
(* and the moves apply_move refuses left open.                             *)

MovesBelow == 2

TerminalFrom == 3

EvalMod == 3

MaxDepth == 2

INT_MIN == -2147483647 - 1

INT_MAX == 2147483647

INITIAL_CAPACITY == 1024

\* the sentinel pointer values of the search
NULL_STATE == -1

NULL_MOVE == 0

RECURSIVE Xor(_, _)
\* bitwise exclusive or of two naturals
Xor(a, b) ==
    IF a = 0 THEN b
    ELSE IF b = 0 THEN a
    ELSE ((a + b) % 2) + 2 * Xor(a \div 2, b \div 2)

MoveOrders == {<<1, 2>>, <<2, 1>>}

Refusals == {{}, {TerminalFrom}, {MovesBelow, TerminalFrom}}

\* the games searched: evaluate returns (state * mul) % EvalMod, or the same
\* extreme int for every state
GameDescriptors ==
    [order : MoveOrders, mul : 0..(EvalMod - 1), refused : Refusals,
     extreme : {0}]
        \cup [order : MoveOrders, mul : {0}, refused : Refusals,
              extreme : {INT_MIN, INT_MAX}]

gd_get_moves(g, s) == IF s >= MovesBelow THEN <<>> ELSE g.order

gd_apply_move(g, s, m) == IF (s + m) \in g.refused THEN NULL_STATE ELSE s + m

gd_is_terminal(g, s) == s >= TerminalFrom

gd_evaluate(g, s) ==
    IF g.extreme # 0 THEN g.extreme ELSE (s * g.mul) % EvalMod

gd_player_to_move(g, s) == IF s % 2 = 0 THEN 1 ELSE -1

gd_hash_state(g, s) == Xor(Xor(s * 8, s \div 4), 11259375)

gd_equals_state(g, a, b) == a = b

-----------------------------------------------------------------------------
(* minimax_ab without a table (cache_handle = NULL) is a function of its   *)
(* arguments.                                                              *)

RECURSIVE minimax_ab_no_cache(_, _, _, _, _)
RECURSIVE minimax_loop_no_cache(_, _, _, _, _, _, _)

\* the move loop from index i (0-based) on, with the running best_value
minimax_loop_no_cache(g, s, depth, alpha, beta, i, best_value) ==
    LET moves == gd_get_moves(g, s)
        player == gd_player_to_move(g, s)
    IN  IF i >= Len(moves) THEN best_value
        ELSE LET new_state == gd_apply_move(g, s, moves[i + 1])
             IN  IF new_state = NULL_STATE
                 THEN minimax_loop_no_cache(g, s, depth, alpha, beta, i + 1,
                                            best_value)
                 ELSE LET value == minimax_ab_no_cache(g, new_state, depth - 1,
                                                       alpha, beta)
                          best == IF player = 1
                                  THEN (IF value > best_value THEN value
                                        ELSE best_value)
                                  ELSE (IF value < best_value THEN value
                                        ELSE best_value)
                          a == IF player = 1 /\ best > alpha THEN best ELSE alpha
                          b == IF player # 1 /\ best < beta THEN best ELSE beta
                      IN  IF a >= b THEN best
                          ELSE minimax_loop_no_cache(g, s, depth, a, b, i + 1,
                                                     best)

minimax_ab_no_cache(g, s, depth, alpha, beta) ==
    IF gd_is_terminal(g, s) \/ depth = 0 THEN gd_evaluate(g, s)
    ELSE IF Len(gd_get_moves(g, s)) = 0 THEN gd_evaluate(g, s)
    ELSE minimax_loop_no_cache(g, s, depth, alpha, beta, 0,
             IF gd_player_to_move(g, s) = 1 THEN INT_MIN ELSE INT_MAX)

-----------------------------------------------------------------------------
(* Memory.  A game state lives in a heap object: object 1 is the caller's  *)
(* root state, the others are allocated by apply_move and released by      *)
(* free_state.  The table keeps the key and value pointers it is given     *)
(* (obj_cache.c stores them verbatim): a key is a heap object, a value is  *)
(* the local `entry` of the minimax_ab activation that stored it, whose    *)
(* lifetime ends with the block that called cache_store.  Reading an       *)
(* object whose lifetime has ended is undefined: the read may produce any  *)
(* value of the object's type.                                             *)

NodeTypes == {"EXACT", "LOWER_BOUND", "UPPER_BOUND"}

\* what a read of a dead minimax_cache_entry_t may produce
EntryValues ==
    [value : 0..(EvalMod - 1), depth : (-1)..MaxDepth, type : NodeTypes]

NoEntry == [value |-> 0, depth |-> 0, type |-> "NULL"]

Entry(value, depth, type) == [value |-> value, depth |-> depth, type |-> type]

RootObject == 1

\* eq_cb(entry->key, key) for a stored key object and a live key holding s:
\* the answers the comparison may give
KeyEquals(g, key_obj, s) ==
    IF heap[key_obj].live THEN {gd_equals_state(g, heap[key_obj].val, s)}
    ELSE BOOLEAN

get_bucket_index(hash, capacity) == hash % capacity

Bucket(index) == IF index \in DOMAIN buckets THEN buckets[index] ELSE <<>>

\* the positions (1-based, 0 for none) of the bucket list at which the walk
\* "while (entry) { if (eq_cb(entry->key, key)) ...; entry = entry->next; }"
\* may stop
WalkStops(g, list, s) ==
    {j \in 0..Len(list) :
        /\ \A k \in 1..Len(list) : (k < j \/ j = 0) => FALSE \in KeyEquals(g, list[k].key, s)
        /\ j # 0 => TRUE \in KeyEquals(g, list[j].key, s)}

\* the pointers cache_lookup may return for a state s: a node of the bucket
\* (its position in the list), or 0 for NULL
cache_lookup(g, s) ==
    WalkStops(g, Bucket(get_bucket_index(gd_hash_state(g, s), INITIAL_CAPACITY)), s)

\* what *cached_val may read as, for the node at position j of s's bucket
ReadEntry(g, s, j) == IF j = 0 THEN {NoEntry} ELSE EntryValues

\* the tables cache_store may leave: the value pointer of a matching node
\* replaced, or a new node at the head of the bucket
cache_store(g, s, key_obj, entry, level) ==
    LET index == get_bucket_index(gd_hash_state(g, s), INITIAL_CAPACITY)
        list == Bucket(index)
        node == [key |-> key_obj, slot |-> level, stored |-> entry]
        Put(j) == IF j = 0 THEN <<node>> \o list
                  ELSE [list EXCEPT ![j] = [@ EXCEPT !.slot = level,
                                                     !.stored = entry]]
    IN  {[b \in DOMAIN buckets \cup {index} |->
             IF b = index THEN Put(j) ELSE buckets[b]] :
         j \in WalkStops(g, list, s)}

-----------------------------------------------------------------------------
(* The hash table on its own (obj_cache.c), created with the callbacks     *)
(* hash_int and equals_int of test_obj_cache.c.  A key pointer is the      *)
(* object it points to together with the int stored there, a value pointer *)
(* is the string it points to; the table keeps both verbatim.  The keys    *)
(* and values outlive the table here, and malloc does not fail.            *)

KeyPtr(obj, val) == [obj |-> obj, val |-> val]

ValuePtr(str, n) == [str |-> str, n |-> n]

\* val starts as (uint64_t) of the int, a sign-extending conversion
hash_int(key) ==
    LET val == IF key.val >= 0 THEN LowBits(key.val)
               ELSE LowBits((key.val + INT_MAX) + 1) \cup (31..63)
    IN  Xor64(Xor64(val, Shl(val, 21)), Shr(val, 35))

equals_int(a, b) == IF a.val = b.val THEN 1 ELSE 0

\* the value of the bits b..63 of a uint64_t modulo m, pow being 2^b modulo m
RECURSIVE ResidueFrom(_, _, _, _)
ResidueFrom(x, m, b, pow) ==
    IF b > 63 THEN 0
    ELSE ((IF b \in x THEN pow ELSE 0) + ResidueFrom(x, m, b + 1, (2 * pow) % m)) % m

\* the value of a uint64_t modulo m
Residue(x, m) == ResidueFrom(x, m, 0, 1 % m)

\* cache_create: capacity INITIAL_CAPACITY, every bucket NULL
EmptyTable == [b \in {} |-> <<>>]

BucketOf(tbl, index) == IF index \in DOMAIN tbl THEN tbl[index] ELSE <<>>

int_bucket_index(key) ==
    get_bucket_index(Residue(hash_int(key), INITIAL_CAPACITY), INITIAL_CAPACITY)

\* position (1-based, 0 for none) of the first node of the list whose key
\* the equality callback reports equal to key
FirstEqual(list, key) ==
    LET hit == {j \in 1..Len(list) : equals_int(list[j].key, key) # 0}
    IN  IF hit = {} THEN 0 ELSE ctz(hit)

\* cache_lookup that compares the head of the bucket only
cache_lookup_head_only(tbl, key) ==
    LET list == BucketOf(tbl, int_bucket_index(key))
    IN  IF Len(list) > 0 /\ equals_int(list[1].key, key) # 0
        THEN list[1].value ELSE NULL

cache_lookup_int(tbl, key) ==
    LET list == BucketOf(tbl, int_bucket_index(key))
        j == FirstEqual(list, key)
    IN  IF j = 0 THEN NULL ELSE list[j].value

\* cache_store without the search for an existing key
cache_store_always_prepend(tbl, key, value) ==
    LET index == int_bucket_index(key)
    IN  [b \in DOMAIN tbl \cup {index} |->
            IF b = index THEN <<[key |-> key, value |-> value]>> \o BucketOf(tbl, index)
            ELSE tbl[b]]

cache_store_int(tbl, key, value) ==
    LET index == int_bucket_index(key)
        list == BucketOf(tbl, index)
        j == FirstEqual(list, key)
    IN  [b \in DOMAIN tbl \cup {index} |->
            IF b # index THEN tbl[b]
            ELSE IF j # 0 THEN [list EXCEPT ![j].value = value]
            ELSE <<[key |-> key, value |-> value]>> \o list]

\* A node pointer is the node's bucket and its distance from the end of
\* the chain (tail, 1 for the last node): nodes are only ever added at the
\* head, so this names the same node for the whole life of the table.
NodeAt(tbl, node) ==
    LET list == BucketOf(tbl, node.bucket) IN list[Len(list) - node.tail + 1]

\* cache->buckets[index]
BucketHead(tbl, index) ==
    IF BucketOf(tbl, index) = <<>> THEN NULL
    ELSE [bucket |-> index, tail |-> Len(BucketOf(tbl, index))]

\* entry->next
NextNode(node) ==
    IF node.tail = 1 THEN NULL ELSE [node EXCEPT !.tail = @ - 1]

cache_iterator_create == [current_bucket |-> 0, current_entry |-> NULL]

\* the outcome of the bucket loop of cache_iterator_next, entered with
\* current_entry = NULL
ScanBuckets(it, tbl) ==
    LET filled == {b \in it.current_bucket..(INITIAL_CAPACITY - 1) :
                     BucketOf(tbl, b) # <<>>}
    IN  IF filled = {}
        THEN [current_bucket |-> IF it.current_bucket >= INITIAL_CAPACITY
                                 THEN it.current_bucket ELSE INITIAL_CAPACITY,
              current_entry |-> NULL]
        ELSE [current_bucket |-> ctz(filled) + 1,
              current_entry |-> BucketHead(tbl, ctz(filled))]

\* cache_iterator_next that starts over from bucket 0 when it runs out
cache_iterator_next_restarting(it, tbl) ==
    LET stepped == IF it.current_entry # NULL
                   THEN [it EXCEPT !.current_entry = NextNode(it.current_entry)]
                   ELSE it
        after == IF stepped.current_entry # NULL THEN stepped
                 ELSE ScanBuckets(stepped, tbl)
    IN  IF after.current_entry # NULL
        THEN [iter |-> after, ret |-> 1,
              key |-> NodeAt(tbl, after.current_entry).key,
              value |-> NodeAt(tbl, after.current_entry).value]
        ELSE [iter |-> cache_iterator_create, ret |-> 0, key |-> NULL, value |-> NULL]

\* the iterator after the call, the value returned, and *pkey and *pvalue
\* (NULL when they are not written)
cache_iterator_next(it, tbl) ==
    LET stepped == IF it.current_entry # NULL
                   THEN [it EXCEPT !.current_entry = NextNode(it.current_entry)]
                   ELSE it
        after == IF stepped.current_entry # NULL THEN stepped
                 ELSE ScanBuckets(stepped, tbl)
    IN  IF after.current_entry # NULL
        THEN [iter |-> after, ret |-> 1,
              key |-> NodeAt(tbl, after.current_entry).key,
              value |-> NodeAt(tbl, after.current_entry).value]
        ELSE [iter |-> after, ret |-> 0, key |-> NULL, value |-> NULL]

\* no cache_store or cache_lookup has been called
NoOp == [op |-> "none", key |-> NULL, value |-> NULL, result |-> NULL]

\* no iterator has been created
NoIterator ==
    [created |-> FALSE, it |-> cache_iterator_create, seen |-> <<>>, ret |-> -1,
     exhausted |-> FALSE, extra |-> 0]

-----------------------------------------------------------------------------
(* The search as a state machine: one stack frame per activation of        *)
(* minimax_ab or get_best_move, one action per stretch of code between two *)
(* calls.                                                                  *)

Frame(fn, state, obj, depth, alpha, beta) ==
    [fn |-> fn, state |-> state, obj |-> obj, depth |-> depth,
     alpha |-> alpha, beta |-> beta,
     alpha_orig |-> alpha, beta_orig |-> beta,
     pc |-> "enter", i |-> 0, best_value |-> 0, best_move |-> NULL_MOVE,
     new_state |-> 0]

Top == stack[Len(stack)]

Running(fn, pc) ==
    /\ phase = "running"
    /\ Len(stack) > 0
    /\ Top.fn = fn
    /\ Top.pc = pc

\* the activation on top of the stack returns v to its caller
Return(v) ==
    /\ stack' = IF Len(stack) = 1 THEN <<>>
                ELSE [SubSeq(stack, 1, Len(stack) - 1)
                         EXCEPT ![Len(stack) - 1].pc = "resume"]
    /\ ret' = v
    /\ phase' = IF Len(stack) = 1 THEN "done" ELSE "running"
    /\ result' = IF Len(stack) = 1 THEN v ELSE result

\* the activation on top of the stack goes on as frame f
Goto(f) ==
    /\ stack' = [stack EXCEPT ![Len(stack)] = f]
    /\ UNCHANGED <<ret, phase, result>>

\* "entry.value = v; entry.depth = depth; entry.type = type;
\*  cache_store(cache_handle, state, &entry); return v;" or, without a
\* table, "return v;"
StoreAndReturn(v, type) ==
    /\ IF cache_handle = "NULL" THEN UNCHANGED buckets
       ELSE buckets' \in cache_store(gd, Top.state, Top.obj,
                                     Entry(v, Top.depth, type), Len(stack))
    /\ Return(v)

\* minimax_ab from its entry to the move loop: the table lookup, the
\* terminal / depth 0 leaf, the state without moves
SearchEnter ==
    /\ Running("minimax_ab", "enter")
    /\ \E j \in (IF cache_handle = "NULL" THEN {0}
                 ELSE cache_lookup(gd, Top.state)) :
       \E cached_val \in ReadEntry(gd, Top.state, j) :
          LET f == Top
              hit == j # 0 /\ cached_val.depth >= f.depth
              alpha == IF hit /\ cached_val.type = "LOWER_BOUND"
                          /\ cached_val.value > f.alpha
                       THEN cached_val.value ELSE f.alpha
              beta == IF hit /\ cached_val.type = "UPPER_BOUND"
                         /\ cached_val.value < f.beta
                      THEN cached_val.value ELSE f.beta
          IN  IF hit /\ cached_val.type = "EXACT"
              THEN Return(cached_val.value) /\ UNCHANGED buckets
              ELSE IF hit /\ alpha >= beta
              THEN Return(cached_val.value) /\ UNCHANGED buckets
              ELSE IF gd_is_terminal(gd, f.state) \/ f.depth = 0
              THEN StoreAndReturn(gd_evaluate(gd, f.state), "EXACT")
              ELSE IF Len(gd_get_moves(gd, f.state)) = 0
              THEN StoreAndReturn(gd_evaluate(gd, f.state), "EXACT")
              ELSE /\ Goto([f EXCEPT
                              !.alpha = alpha, !.beta = beta, !.pc = "loop",
                              !.i = 0,
                              !.best_value =
                                  IF gd_player_to_move(gd, f.state) = 1
                                  THEN INT_MIN ELSE INT_MAX])
                   /\ UNCHANGED buckets
    /\ UNCHANGED <<gd, api, cache_handle, root_depth, heap>>
    /\ UNCHANGED <<chessVars, hashVars, cacheVars, genVars>>

\* a head of the move loop that stores the running best value before the
\* recursive call instead of after the loop
Descend_store_first(fn) ==
    /\ Running(fn, "loop")
    /\ Top.i < Len(gd_get_moves(gd, Top.state))
    /\ LET f == Top
           move == gd_get_moves(gd, f.state)[f.i + 1]
           new_state == gd_apply_move(gd, f.state, move)
           obj == Len(heap) + 1
       IN  IF new_state = NULL_STATE
           THEN /\ Goto([f EXCEPT !.i = f.i + 1])
                /\ UNCHANGED <<heap, buckets>>
           ELSE /\ heap' = Append(heap, [val |-> new_state, live |-> TRUE])
                /\ stack' = [stack EXCEPT ![Len(stack)] =
                                [f EXCEPT !.pc = "call", !.new_state = obj]]
                            \o <<Frame("minimax_ab", new_state, obj,
                                       f.depth - 1, f.alpha, f.beta)>>
                /\ IF cache_handle = "NULL" \/ fn # "minimax_ab"
                   THEN UNCHANGED buckets
                   ELSE buckets' \in cache_store(gd, f.state, f.obj,
                                        Entry(f.best_value, f.depth, "EXACT"),
                                        Len(stack))
                /\ UNCHANGED <<ret, phase, result>>
    /\ UNCHANGED <<gd, api, cache_handle, root_depth>>
    /\ UNCHANGED <<chessVars, hashVars, cacheVars, genVars>>

\* the head of a move loop: apply_move on move i, then either skip the
\* move (NULL) or call minimax_ab on the new state
Descend(fn) ==
    /\ Running(fn, "loop")
    /\ Top.i < Len(gd_get_moves(gd, Top.state))
    /\ LET f == Top
           move == gd_get_moves(gd, f.state)[f.i + 1]
           new_state == gd_apply_move(gd, f.state, move)
           obj == Len(heap) + 1
       IN  IF new_state = NULL_STATE
           THEN /\ Goto([f EXCEPT !.i = f.i + 1])
                /\ UNCHANGED heap
           ELSE /\ heap' = Append(heap, [val |-> new_state, live |-> TRUE])
                /\ stack' = [stack EXCEPT ![Len(stack)] =
                                [f EXCEPT !.pc = "call", !.new_state = obj]]
                            \o <<Frame("minimax_ab", new_state, obj,
                                       f.depth - 1, f.alpha, f.beta)>>
                /\ UNCHANGED <<ret, phase, result>>
    /\ UNCHANGED <<gd, api, cache_handle, root_depth, buckets>>
    /\ UNCHANGED <<chessVars, hashVars, cacheVars, genVars>>

SearchDescend == Descend("minimax_ab")

\* an update that keeps the value of the last child instead of the best one
Improve_last_child(f, value) ==
    LET player == gd_player_to_move(gd, f.state)
    IN  [better |-> TRUE,
         best_value |-> value,
         alpha |-> IF player = 1 /\ value > f.alpha THEN value ELSE f.alpha,
         beta |-> IF player # 1 /\ value < f.beta THEN value ELSE f.beta]

\* an update that also takes a child whose value equals the best so far
Improve_on_equal(f, value) ==
    LET player == gd_player_to_move(gd, f.state)
        better == IF player = 1 THEN value >= f.best_value
                  ELSE value <= f.best_value
        best == IF better THEN value ELSE f.best_value
    IN  [better |-> better,
         best_value |-> best,
         alpha |-> IF player = 1 /\ best > f.alpha THEN best ELSE f.alpha,
         beta |-> IF player # 1 /\ best < f.beta THEN best ELSE f.beta]

\* the running best value and window after a child returned `value`
Improve(f, value) ==
    LET player == gd_player_to_move(gd, f.state)
        better == IF player = 1 THEN value > f.best_value
                  ELSE value < f.best_value
        best == IF better THEN value ELSE f.best_value
    IN  [better |-> better,
         best_value |-> best,
         alpha |-> IF player = 1 /\ best > f.alpha THEN best ELSE f.alpha,
         beta |-> IF player # 1 /\ best < f.beta THEN best ELSE f.beta]

\* free_state(new_state)
free_state(obj) == heap' = [heap EXCEPT ![obj].live = FALSE]

\* a minimax_ab that leaves the loop on a cutoff before the child state is
\* released
SearchResume_keep_on_cutoff ==
    /\ Running("minimax_ab", "resume")
    /\ LET f == Top
           u == Improve(f, ret)
       IN  /\ IF u.alpha >= u.beta THEN UNCHANGED heap
              ELSE free_state(f.new_state)
           /\ Goto([f EXCEPT
                      !.best_value = u.best_value,
                      !.alpha = u.alpha, !.beta = u.beta,
                      !.i = f.i + 1,
                      !.pc = IF u.alpha >= u.beta THEN "finish" ELSE "loop"])
    /\ UNCHANGED <<gd, api, cache_handle, root_depth, buckets>>
    /\ UNCHANGED <<chessVars, hashVars, cacheVars, genVars>>

\* minimax_ab after the recursive call: release the child state, update
\* best_value and the window, prune or go on with the next move
SearchResume ==
    /\ Running("minimax_ab", "resume")
    /\ LET f == Top
           u == Improve(f, ret)
       IN  /\ free_state(f.new_state)
           /\ Goto([f EXCEPT
                      !.best_value = u.best_value,
                      !.alpha = u.alpha, !.beta = u.beta,
                      !.i = f.i + 1,
                      !.pc = IF u.alpha >= u.beta THEN "finish" ELSE "loop"])
    /\ UNCHANGED <<gd, api, cache_handle, root_depth, buckets>>
    /\ UNCHANGED <<chessVars, hashVars, cacheVars, genVars>>

LoopDone(fn) ==
    \/ Running(fn, "finish")
    \/ Running(fn, "loop") /\ Top.i >= Len(gd_get_moves(gd, Top.state))

\* an end of minimax_ab that classifies against the window as the loop left
\* it instead of alpha_orig and beta_orig
SearchFinish_current_window ==
    /\ LoopDone("minimax_ab")
    /\ LET f == Top
           node_type == IF f.best_value <= f.alpha THEN "UPPER_BOUND"
                        ELSE IF f.best_value >= f.beta THEN "LOWER_BOUND"
                        ELSE "EXACT"
       IN  StoreAndReturn(f.best_value, node_type)
    /\ UNCHANGED <<gd, api, cache_handle, root_depth, heap>>
    /\ UNCHANGED <<chessVars, hashVars, cacheVars, genVars>>

\* minimax_ab after the loop: classify the node, store, return best_value
SearchFinish ==
    /\ LoopDone("minimax_ab")
    /\ LET f == Top
           node_type == IF f.best_value <= f.alpha_orig THEN "UPPER_BOUND"
                        ELSE IF f.best_value >= f.beta_orig THEN "LOWER_BOUND"
                        ELSE "EXACT"
       IN  StoreAndReturn(f.best_value, node_type)
    /\ UNCHANGED <<gd, api, cache_handle, root_depth, heap>>
    /\ UNCHANGED <<chessVars, hashVars, cacheVars, genVars>>

\* get_best_move from its entry to the move loop
BestEnter ==
    /\ Running("get_best_move", "enter")
    /\ LET f == Top
       IN  IF gd_is_terminal(gd, f.state) THEN Return(NULL_MOVE)
           ELSE IF Len(gd_get_moves(gd, f.state)) = 0 THEN Return(NULL_MOVE)
           ELSE Goto([f EXCEPT
                        !.pc = "loop", !.i = 0, !.best_move = NULL_MOVE,
                        !.best_value = IF gd_player_to_move(gd, f.state) = 1
                                       THEN INT_MIN ELSE INT_MAX])
    /\ UNCHANGED <<gd, api, cache_handle, root_depth, heap, buckets>>
    /\ UNCHANGED <<chessVars, hashVars, cacheVars, genVars>>

BestDescend == Descend("get_best_move")

\* get_best_move after the call of minimax_ab: release the child state,
\* keep a copy of the move if it is strictly better, update the window
BestResume ==
    /\ Running("get_best_move", "resume")
    /\ LET f == Top
           u == Improve(f, ret)
           move == gd_get_moves(gd, f.state)[f.i + 1]
       IN  /\ free_state(f.new_state)
           /\ Goto([f EXCEPT
                      !.best_value = u.best_value,
                      !.best_move = IF u.better THEN move ELSE f.best_move,
                      !.alpha = u.alpha, !.beta = u.beta,
                      !.i = f.i + 1,
                      !.pc = IF u.alpha >= u.beta THEN "finish" ELSE "loop"])
    /\ UNCHANGED <<gd, api, cache_handle, root_depth, buckets>>
    /\ UNCHANGED <<chessVars, hashVars, cacheVars, genVars>>

\* a faulty end of get_best_move: when no move was kept, the first move of
\* the list is returned instead of NULL
BestFinish_first_move ==
    /\ LoopDone("get_best_move")
    /\ Return(IF Top.best_move = NULL_MOVE
              THEN gd_get_moves(gd, Top.state)[1] ELSE Top.best_move)
    /\ UNCHANGED <<gd, api, cache_handle, root_depth, heap, buckets>>
    /\ UNCHANGED <<chessVars, hashVars, cacheVars, genVars>>

\* get_best_move after the loop: return best_move
BestFinish ==
    /\ LoopDone("get_best_move")
    /\ Return(Top.best_move)
    /\ UNCHANGED <<gd, api, cache_handle, root_depth, heap, buckets>>
    /\ UNCHANGED <<chessVars, hashVars, cacheVars, genVars>>

-----------------------------------------------------------------------------
(* The chess state machine: positions played forward by chess_apply_move *)

MaxPly == 2

NoMove == Move(0, 0, 0, 0, 0)

Position(wp, wn, wb, wr, wq, wk, bp, bn, bb, br, bq, bk, rights, ep, half, full, player) ==
    [white_pawns   |-> wp,  black_pawns   |-> bp,
     white_rooks   |-> wr,  black_rooks   |-> br,
     white_knights |-> wn,  black_knights |-> bn,
     white_bishops |-> wb,  black_bishops |-> bb,
     white_queens  |-> wq,  black_queens  |-> bq,
     white_kings   |-> wk,  black_kings   |-> bk,
     castling_rights |-> rights,
     en_passant      |-> ep,
     halfmove_clock  |-> half,
     fullmove_number |-> full,
     current_player  |-> player]

\* Ke1 Ra1 Rh1 a2 h2 / Ke8 Ra8 Rh8 e2, all rights, White to move
RookEnding ==
    Position({8, 15}, {}, {}, {0, 7}, {}, {4},
             {12}, {}, {}, {56, 63}, {}, {60},
             {1, 2, 4, 8}, EP_NONE, 0, 30, 1)

\* Ke1 Ra5 / Ke8 Re5: White is in check from e5 and may capture on e5
CheckedKing ==
    Position({}, {}, {}, {32}, {}, {4},
             {}, {}, {}, {36}, {}, {60},
             {}, EP_NONE, 3, 40, 1)

\* Ke1 Re3 Nb1 / Kh8 Re8: the rook on e3 is pinned on the e-file
PinnedRook ==
    Position({}, {1}, {}, {20}, {}, {4},
             {}, {}, {}, {60}, {}, {63},
             {}, EP_NONE, 5, 40, 1)

\* Ke1 a2 e5 / Ke7 h7, Black to move: d6 and f6 are attacked by the e5 pawn
PawnEnding ==
    Position({8, 36}, {}, {}, {}, {}, {4},
             {55}, {}, {}, {}, {}, {52},
             {}, EP_NONE, 0, 35, -1)

\* Ke1 e5 / Ke8 d5 f7 after ...d7-d5: White may capture en passant on d6
EnPassantReady ==
    Position({36}, {}, {}, {}, {}, {4},
             {35, 53}, {}, {}, {}, {}, {60},
             {}, 43, 0, 20, 1)

\* Ka1 e7 / Kh8 b3: White promotes on e8
PromotionReady ==
    Position({52}, {}, {}, {}, {}, {0},
             {17}, {}, {}, {}, {}, {63},
             {}, EP_NONE, 0, 50, 1)

\* the position after 1. e2-e4 e7-e5, as chess_apply_move produces it
KingsPawnOpening ==
    [initialize_board EXCEPT
        !.white_pawns = (8..15 \ {12}) \cup {28},
        !.black_pawns = (48..55 \ {52}) \cup {36},
        !.fullmove_number = 2]

\* Ke1 Ra1 / Ke8 Rb8, White may castle queenside: the black rook attacks
\* b1, which only the white rook crosses
QueensideCastle ==
    Position({}, {}, {}, {0}, {}, {4},
             {}, {}, {}, {57}, {}, {60},
             {2}, EP_NONE, 4, 25, 1)

\* Ke1 Ra1 / Ke8 after 254 full moves, the last 255 half-moves without a
\* capture or pawn move; Black to move
LongGame ==
    Position({}, {}, {}, {0}, {}, {4},
             {}, {}, {}, {}, {}, {60},
             {}, EP_NONE, 255, 255, -1)

\* the position after 1. h2-h4 h7-h5 2. Rh1-h3 Rh8-h6 3. Ng1-f3 Ng8-f6
\* 4. e2-e3 e7-e6 5. Bf1-e2 Bf8-e7, as chess_apply_move produces it: the
\* rook moves have left all four castling rights set
RookLifted ==
    [initialize_board EXCEPT
        !.white_pawns = (8..15 \ {12, 15}) \cup {20, 31},
        !.white_knights = {1, 21},
        !.white_bishops = {2, 12},
        !.white_rooks = {0, 23},
        !.black_pawns = (48..55 \ {52, 55}) \cup {44, 39},
        !.black_knights = {57, 45},
        !.black_bishops = {58, 52},
        !.black_rooks = {56, 47},
        !.halfmove_clock = 2,
        !.fullmove_number = 6]

StartPositions ==
    {initialize_board, KingsPawnOpening, RookEnding, CheckedKing, PinnedRook, PawnEnding,
     EnPassantReady, PromotionReady, QueensideCastle, LongGame, RookLifted}

\* no chess_hash_state has been called
NoHash == [called |-> FALSE, initialized |-> 0, value |-> {}]

\* chess_hash.c is not in use
HashIdle ==
    /\ zobrist = ZobristStatics
    /\ state_p = initialize_board
    /\ state_q = initialize_board
    /\ hash_p = NoHash
    /\ hash_q = NoHash
    /\ copied = FALSE

\* chess_get_moves has not been called on its own
GenIdle ==
    gen = [state |-> initialize_board, called |-> FALSE, moves |-> <<>>,
           evaluated |-> FALSE, value |-> 0,
           applied |-> FALSE, move |-> NoMove, result |-> NULL]

\* no hash table of test_obj_cache.c exists
CacheIdle ==
    /\ test = "none"
    /\ int_cache = EmptyTable
    /\ cache_before = EmptyTable
    /\ last_op = NoOp
    /\ stored = [k \in {} |-> NULL]
    /\ iter = NoIterator

\* no search is under way
SearchIdle ==
    /\ gd = [order |-> <<1, 2>>, mul |-> 1, refused |-> {}, extreme |-> 0]
    /\ api = "minimax_ab"
    /\ cache_handle = "NULL"
    /\ root_depth = 0
    /\ stack = <<>>
    /\ ret = 0
    /\ buckets = [b \in {} |-> <<>>]
    /\ heap = <<>>
    /\ result = 0
    /\ phase = "idle"

Init ==
    /\ start \in StartPositions
    /\ pos = start
    /\ prev = pos
    /\ mv = NoMove
    /\ outcome = "start"
    /\ ply = 0
    /\ mem = [state |-> pos, returned |-> "none"]
    /\ SearchIdle
    /\ HashIdle
    /\ CacheIdle
    /\ GenIdle

\* chess_apply_move returns a new position, which becomes the current one
ApplyAccepted ==
    /\ ply < MaxPly
    /\ LET moves == chess_get_moves(pos)
       IN  \E i \in 1..Len(moves) :
             LET r == chess_apply_move(pos, moves[i])
             IN  /\ r # NULL
                 /\ pos' = r
                 /\ mv' = moves[i]
                 /\ mem' = chess_apply_move_objects(pos, moves[i])
    /\ prev' = pos
    /\ outcome' = "accepted"
    /\ ply' = ply + 1
    /\ UNCHANGED start
    /\ UNCHANGED <<searchVars, hashVars, cacheVars, genVars>>

\* chess_apply_move returns NULL: the position stays as it is
ApplyRejected ==
    /\ ply < MaxPly
    /\ LET moves == chess_get_moves(pos)
       IN  \E i \in 1..Len(moves) :
             /\ chess_apply_move(pos, moves[i]) = NULL
             /\ mv' = moves[i]
             /\ mem' = chess_apply_move_objects(pos, moves[i])
    /\ pos' = mem'.state
    /\ prev' = pos
    /\ outcome' = "rejected"
    /\ UNCHANGED <<start, ply>>
    /\ UNCHANGED <<searchVars, hashVars, cacheVars, genVars>>

Next == ApplyAccepted \/ ApplyRejected

vars == <<chessVars, searchVars, hashVars, cacheVars, genVars>>

Spec == Init /\ [][Next]_vars

\* no game of chess is under way
ChessIdle ==
    /\ start = initialize_board
    /\ pos = start
    /\ prev = pos
    /\ mv = NoMove
    /\ outcome = "start"
    /\ ply = 0
    /\ mem = [state |-> pos, returned |-> "none"]

RootStates == 0..TerminalFrom

\* a caller holds a root state and calls minimax_ab with the full window, or
\* get_best_move, with a freshly created table or with none
SearchInit ==
    /\ ChessIdle
    /\ HashIdle
    /\ CacheIdle
    /\ GenIdle
    /\ gd \in GameDescriptors
    /\ api \in {"minimax_ab", "get_best_move"}
    /\ cache_handle \in {"NULL", "table"}
    /\ root_depth \in 0..MaxDepth
    /\ \E s \in RootStates :
          /\ heap = <<[val |-> s, live |-> TRUE]>>
          /\ stack = <<Frame(api, s, RootObject, root_depth, INT_MIN, INT_MAX)>>
    /\ ret = 0
    /\ buckets = [b \in {} |-> <<>>]
    /\ result = 0
    /\ phase = "running"

SearchNext ==
    \/ SearchEnter
    \/ SearchDescend
    \/ SearchResume
    \/ SearchFinish
    \/ BestEnter
    \/ BestDescend
    \/ BestResume
    \/ BestFinish

SearchSpec == SearchInit /\ [][SearchNext]_vars

-----------------------------------------------------------------------------
(* The hashing state machine: chess_hash_init and chess_hash_state called  *)
(* in any order on two positions, the second of which may be replaced by a *)
(* copy of the first.                                                      *)

HashPositions ==
    {initialize_board, KingsPawnOpening, EnPassantReady,
     [EnPassantReady EXCEPT !.halfmove_clock = 7],
     [EnPassantReady EXCEPT !.en_passant = EP_NONE]}

HashInit ==
    /\ ChessIdle
    /\ SearchIdle
    /\ CacheIdle
    /\ GenIdle
    /\ zobrist = ZobristStatics
    /\ state_p \in HashPositions
    /\ state_q \in HashPositions
    /\ hash_p = NoHash
    /\ hash_q = NoHash
    /\ copied = FALSE

\* chess_hash_init, time(NULL) returning one of two values
HashInitKeys ==
    /\ \E now \in {1734390000, 1734390001} :
          zobrist' = chess_hash_init(zobrist, now)
    /\ UNCHANGED <<state_p, state_q, hash_p, hash_q, copied>>
    /\ UNCHANGED <<chessVars, searchVars, cacheVars, genVars>>

HashStateP ==
    /\ hash_p' = [called |-> TRUE, initialized |-> zobrist.initialized,
                  value |-> chess_hash_state(zobrist, state_p)]
    /\ UNCHANGED <<zobrist, state_p, state_q, hash_q, copied>>
    /\ UNCHANGED <<chessVars, searchVars, cacheVars, genVars>>

HashStateQ ==
    /\ hash_q' = [called |-> TRUE, initialized |-> zobrist.initialized,
                  value |-> chess_hash_state(zobrist, state_q)]
    /\ UNCHANGED <<zobrist, state_p, state_q, hash_p, copied>>
    /\ UNCHANGED <<chessVars, searchVars, cacheVars, genVars>>

\* state_q becomes the object chess_copy_state(state_p) returns; nothing has
\* been hashed from it yet
CopyState ==
    /\ ~copied
    /\ state_q' = chess_copy_state(state_p)
    /\ hash_q' = NoHash
    /\ copied' = TRUE
    /\ UNCHANGED <<zobrist, state_p, hash_p>>
    /\ UNCHANGED <<chessVars, searchVars, cacheVars, genVars>>

HashNext == HashInitKeys \/ HashStateP \/ HashStateQ \/ CopyState

HashSpec == HashInit /\ [][HashNext]_vars

-----------------------------------------------------------------------------
(* The hash table state machine: the calls test_obj_cache.c makes on a     *)
(* table of int keys, in any order.  In "int_store_lookup" a few key       *)
(* objects are stored, looked up and iterated over; in "hash_conflicts"    *)
(* the filling loop stores the keys 0 .. BulkKeys - 1 before anything else *)
(* is called.                                                              *)

\* number of keys the loop of test_hash_conflicts stores
BulkKeys == 1026

\* calls of cache_iterator_next followed after the first one that returned 0
MaxExtraNext == 2

\* int k1 = 42, k4 = 42, k5 = -1, and heap keys as test_hash_conflicts makes
\* them, one sharing the bucket of 42 and one in the last bucket
StoreKeys ==
    {KeyPtr("k1", 42), KeyPtr("k4", 42), KeyPtr("k5", -1),
     KeyPtr("key_ptr", INITIAL_CAPACITY + 42),
     KeyPtr("key_ptr", INITIAL_CAPACITY - 1)}

\* the loop of test_hash_conflicts has finished
Filled == Cardinality(DOMAIN stored) >= BulkKeys

CacheInit ==
    /\ ChessIdle
    /\ SearchIdle
    /\ HashIdle
    /\ GenIdle
    /\ test \in {"int_store_lookup", "hash_conflicts"}
    /\ int_cache = EmptyTable
    /\ cache_before = EmptyTable
    /\ last_op = NoOp
    /\ stored = [k \in {} |-> NULL]
    /\ iter = NoIterator

\* one round of the loop of test_hash_conflicts
BulkStore ==
    /\ test = "hash_conflicts"
    /\ ~Filled
    /\ LET i == Cardinality(DOMAIN stored)
           key == KeyPtr("key_ptr", i)
           value == ValuePtr("Val", i)
       IN  /\ int_cache' = cache_store_int(int_cache, key, value)
           /\ cache_before' = int_cache
           /\ last_op' = [op |-> "store", key |-> key, value |-> value,
                          result |-> NULL]
           /\ stored' = [k \in DOMAIN stored \cup {i} |->
                            IF k = i THEN value ELSE stored[k]]
    /\ UNCHANGED <<test, iter>>
    /\ UNCHANGED <<chessVars, searchVars, hashVars, genVars>>

\* cache_store; the iterator, if any, has been destroyed before.  After
\* the loop of test_hash_conflicts the keys 0 and 1024 are stored again
\* through other objects.
CacheStore ==
    /\ test = "hash_conflicts" => Filled
    /\ \E key \in IF test = "hash_conflicts"
                  THEN {KeyPtr("k1", 0), KeyPtr("k4", INITIAL_CAPACITY)}
                  ELSE StoreKeys,
          value \in IF test = "hash_conflicts" THEN {ValuePtr("NewAnswer", 0)}
                    ELSE {ValuePtr("Answer", 0), ValuePtr("NewAnswer", 0)} :
          /\ int_cache' = cache_store_int(int_cache, key, value)
          /\ cache_before' = int_cache
          /\ last_op' = [op |-> "store", key |-> key, value |-> value,
                         result |-> NULL]
          /\ stored' = [k \in DOMAIN stored \cup {key.val} |->
                           IF k = key.val THEN value ELSE stored[k]]
    /\ iter' = NoIterator
    /\ UNCHANGED test
    /\ UNCHANGED <<chessVars, searchVars, hashVars, genVars>>

\* cache_lookup of a stored key or of int missing = 12345; after the loop
\* of test_hash_conflicts, of int tk taken from test_keys[] fitted to BulkKeys
CacheLookup ==
    /\ test = "hash_conflicts" => Filled
    /\ \E key \in IF test = "hash_conflicts"
                  THEN {KeyPtr("tk", v) :
                          v \in {0, 42, INITIAL_CAPACITY, BulkKeys - 1, BulkKeys, -1}}
                  ELSE StoreKeys \cup {KeyPtr("missing", 12345)} :
          last_op' = [op |-> "lookup", key |-> key, value |-> NULL,
                      result |-> cache_lookup_int(int_cache, key)]
    /\ cache_before' = int_cache
    /\ UNCHANGED <<test, int_cache, stored, iter>>
    /\ UNCHANGED <<chessVars, searchVars, hashVars, genVars>>

\* cache_iterator_create (after cache_iterator_destroy of the previous one)
IterCreate ==
    /\ test = "int_store_lookup"
    /\ iter' = [NoIterator EXCEPT !.created = TRUE]
    /\ UNCHANGED <<test, int_cache, cache_before, last_op, stored>>
    /\ UNCHANGED <<chessVars, searchVars, hashVars, genVars>>

IterNext ==
    /\ iter.created
    /\ iter.extra < MaxExtraNext
    /\ LET r == cache_iterator_next(iter.it, int_cache)
       IN  iter' = [iter EXCEPT
                       !.it = r.iter,
                       !.ret = r.ret,
                       !.seen = IF r.ret = 1
                                THEN Append(@, [key |-> r.key, value |-> r.value])
                                ELSE @,
                       !.exhausted = @ \/ r.ret = 0,
                       !.extra = IF iter.exhausted THEN @ + 1 ELSE @]
    /\ UNCHANGED <<test, int_cache, cache_before, last_op, stored>>
    /\ UNCHANGED <<chessVars, searchVars, hashVars, genVars>>

CacheNext == BulkStore \/ CacheStore \/ CacheLookup \/ IterCreate \/ IterNext

CacheSpec == CacheInit /\ [][CacheNext]_vars

-----------------------------------------------------------------------------
(* The generator on its own: chess_get_moves called on a position set up   *)
(* by hand, as test_chess_moves.c and test_chess_moves_module.c do from a  *)
(* FEN string.                                                             *)

\* The positions set up: the start positions of the games above, three
\* families around the special moves and one of endings.
\*  - en passant: one or two pawns of the side to move on its fourth and
\*    fifth ranks, with or without an en-passant square on the third or
\*    sixth rank in front of the pawn whose double push left it (a FEN
\*    string names the square whichever side is to move);
\*  - castling: king on its original square or in front of it, rooks on
\*    their corners, any of the side's rights, at most one knight of either
\*    colour between king and rooks;
\*  - promotion: a pawn one step from the last rank, opposing knights on
\*    any of the three squares in front of it;
\*  - cornered king: the king of the side to move in its corner (a1 for
\*    White, h8 for Black), the opposing king a knight's move away (c2, f7),
\*    with or without an opposing knight on c3 or f6, and one more opposing
\*    piece on any free square of the nearest four ranks.
GenPositions ==
    LET EnPassant(side) ==
            LET near == IF side = 1 THEN 32..39 ELSE 24..31
                far == IF side = 1 THEN 24..31 ELSE 32..39
                pawn_sets == {{a} : a \in near \cup far}
                             \cup {{a, b} : a, b \in near}
                WhitePushed(ep) == IF ep \in 16..23 THEN {ep + 8} ELSE {}
                BlackPushed(ep) == IF ep \in 40..47 THEN {ep - 8} ELSE {}
            IN  {IF side = 1
                 THEN Position(pe[1] \cup WhitePushed(pe[2]), {}, {}, {}, {}, {4},
                               BlackPushed(pe[2]), {}, {}, {}, {}, {60},
                               {}, pe[2], 0, 20, 1)
                 ELSE Position(WhitePushed(pe[2]), {}, {}, {}, {}, {4},
                               pe[1] \cup BlackPushed(pe[2]), {}, {}, {}, {}, {60},
                               {}, pe[2], 0, 20, -1) :
                 pe \in {x \in pawn_sets \X ({EP_NONE} \cup (16..23) \cup (40..47)) :
                            x[1] \cap (IF side = 1 THEN BlackPushed(x[2])
                                       ELSE WhitePushed(x[2])) = {}}}
        Castling(side) ==
            LET home == IF side = 1 THEN 4 ELSE 60
                front == IF side = 1 THEN 12 ELSE 52
                flags == IF side = 1 THEN {1, 2} ELSE {4, 8}
                between == {home - 3, home - 2, home - 1, home + 1, home + 2}
            IN  {IF side = 1
                 THEN Position({}, own, {}, {0, 7}, {}, {king},
                               {}, opp, {}, {}, {}, {60}, rights, EP_NONE, 0, 20, 1)
                 ELSE Position({}, opp, {}, {}, {}, {4},
                               {}, own, {}, {56, 63}, {}, {king},
                               rights, EP_NONE, 0, 20, -1) :
                 <<king, rights, own, opp>> \in
                    {t \in {home, front} \X (SUBSET flags)
                           \X ({{}} \cup {{b} : b \in between})
                           \X ({{}} \cup {{b} : b \in between}) :
                        t[3] = {} \/ t[4] = {}}}
        Promotion(side) ==
            LET from_rank == IF side = 1 THEN 6 ELSE 1
                last_rank == IF side = 1 THEN 7 ELSE 0
            IN  {IF side = 1
                 THEN Position({from_rank * 8 + file}, {}, {}, {}, {}, {24},
                               {}, guards, {}, {}, {}, {31}, {}, EP_NONE, 0, 20, 1)
                 ELSE Position({}, guards, {}, {}, {}, {24},
                               {from_rank * 8 + file}, {}, {}, {}, {}, {31},
                               {}, EP_NONE, 0, 20, -1) :
                 <<file, guards>> \in
                    {fg \in (0..7) \X (SUBSET (last_rank * 8 .. last_rank * 8 + 7)) :
                        \A g \in fg[2] : Abs((g % 8) - fg[1]) <= 1}}
        Cornered(side) ==
            LET At(sq) == IF side = 1 THEN sq ELSE 63 - sq
                Of(kind, piece, sq) == IF piece = kind THEN {At(sq)} ELSE {}
            IN  {IF side = 1
                 THEN Position({}, {}, {}, {}, {}, {At(0)},
                               Of("pawn", c[1], c[2]),
                               Of("knight", c[1], c[2]) \cup c[3],
                               Of("bishop", c[1], c[2]), Of("rook", c[1], c[2]),
                               Of("queen", c[1], c[2]), {At(10)},
                               {}, EP_NONE, 0, 40, 1)
                 ELSE Position(Of("pawn", c[1], c[2]),
                               Of("knight", c[1], c[2]) \cup c[3],
                               Of("bishop", c[1], c[2]), Of("rook", c[1], c[2]),
                               Of("queen", c[1], c[2]), {At(10)},
                               {}, {}, {}, {}, {}, {At(0)},
                               {}, EP_NONE, 0, 40, -1) :
                 c \in {x \in {"pawn", "knight", "bishop", "rook", "queen"}
                               \X (0..31) \X {{}, {At(18)}} :
                          /\ x[2] \notin {0, 10, 18}
                          /\ x[1] = "pawn" => x[2] >= 8}}
    IN  StartPositions
        \cup EnPassant(1) \cup EnPassant(-1)
        \cup Castling(1) \cup Castling(-1)
        \cup Promotion(1) \cup Promotion(-1)
        \cup Cornered(1) \cup Cornered(-1)

GenInit ==
    /\ ChessIdle
    /\ SearchIdle
    /\ HashIdle
    /\ CacheIdle
    /\ \E state \in GenPositions :
          gen = [state |-> state, called |-> FALSE, moves |-> <<>>,
                 evaluated |-> FALSE, value |-> 0,
                 applied |-> FALSE, move |-> NoMove, result |-> NULL]

\* chess_get_moves(state), the returned vector read out in order
GetMoves ==
    /\ ~gen.called
    /\ gen' = [gen EXCEPT !.called = TRUE, !.moves = chess_get_moves(gen.state)]
    /\ UNCHANGED <<chessVars, searchVars, hashVars, cacheVars>>

\* moves a caller builds by hand from a square that holds no piece of the
\* side to move: the lowest empty square and the lowest square of the other
\* side, one rank up or down
ForeignMoves(state) ==
    LET own == IF state.current_player = 1 THEN compute_white_occ(state)
               ELSE compute_black_occ(state)
        empty == AllSquares \ compute_all_occ(state)
        other == compute_all_occ(state) \ own
        from == (IF empty = {} THEN {} ELSE {ctz(empty)})
                    \cup (IF other = {} THEN {} ELSE {ctz(other)})
    IN  {Move(f, (f + d) % 64, 0, 0, 0) : f \in from, d \in {8, 56}}

\* chess_apply_move(state, move) for a move that was not generated
ApplyMove ==
    /\ ~gen.applied
    /\ \E move \in ForeignMoves(gen.state) :
          gen' = [gen EXCEPT !.applied = TRUE, !.move = move,
                             !.result = chess_apply_move(gen.state, move)]
    /\ UNCHANGED <<chessVars, searchVars, hashVars, cacheVars>>

\* chess_evaluate(state)
Evaluate ==
    /\ ~gen.evaluated
    /\ gen' = [gen EXCEPT !.evaluated = TRUE, !.value = chess_evaluate(gen.state)]
    /\ UNCHANGED <<chessVars, searchVars, hashVars, cacheVars>>

GenNext == GetMoves \/ Evaluate \/ ApplyMove

GenSpec == GenInit /\ [][GenNext]_vars

-----------------------------------------------------------------------------
(* The rules of chess, stated on the geometry of the board and independent *)
(* of the attack queries above; the properties below are measured against  *)
(* them.                                                                   *)

File(sq) == sq % 8

Rank(sq) == sq \div 8

Sgn(x) == IF x > 0 THEN 1 ELSE IF x < 0 THEN -1 ELSE 0

Pieces(state, side, kind) ==
    state[(IF side = 1 THEN "white_" ELSE "black_") \o kind]

\* a and b lie on one rank, file or diagonal
Aligned(a, b) ==
    /\ a # b
    /\ \/ File(a) = File(b)
       \/ Rank(a) = Rank(b)
       \/ Abs(File(a) - File(b)) = Abs(Rank(a) - Rank(b))

\* the squares strictly between two aligned squares
Between(a, b) ==
    LET df == Sgn(File(b) - File(a))
        dr == Sgn(Rank(b) - Rank(a))
        n  == IF Abs(File(b) - File(a)) > Abs(Rank(b) - Rank(a))
              THEN Abs(File(b) - File(a)) ELSE Abs(Rank(b) - Rank(a))
    IN  {a + k * (df + 8 * dr) : k \in 1..(n - 1)}

RuleOccupied(state) == compute_all_occ(state)

RulePawnAttacks(p, sq, side) ==
    /\ Rank(sq) = Rank(p) + side
    /\ Abs(File(sq) - File(p)) = 1

RuleKnightAttacks(n, sq) ==
    {Abs(File(sq) - File(n)), Abs(Rank(sq) - Rank(n))} = {1, 2}

RuleKingAttacks(k, sq) ==
    /\ k # sq
    /\ Abs(File(sq) - File(k)) <= 1
    /\ Abs(Rank(sq) - Rank(k)) <= 1

RuleLineAttacks(state, p, sq, diagonal) ==
    /\ Aligned(p, sq)
    /\ (Abs(File(p) - File(sq)) = Abs(Rank(p) - Rank(sq))) = diagonal
    /\ Between(p, sq) \cap RuleOccupied(state) = {}

\* square sq is attacked by a piece of `side` under the rules of chess
RuleAttacked(state, sq, side) ==
    \/ \E p \in Pieces(state, side, "pawns") : RulePawnAttacks(p, sq, side)
    \/ \E n \in Pieces(state, side, "knights") : RuleKnightAttacks(n, sq)
    \/ \E k \in Pieces(state, side, "kings") : RuleKingAttacks(k, sq)
    \/ \E b \in Pieces(state, side, "bishops") \cup Pieces(state, side, "queens") :
          RuleLineAttacks(state, b, sq, TRUE)
    \/ \E r \in Pieces(state, side, "rooks") \cup Pieces(state, side, "queens") :
          RuleLineAttacks(state, r, sq, FALSE)

RuleInCheck(state, side) ==
    \E k \in Pieces(state, side, "kings") : RuleAttacked(state, k, -side)

\* the board after the side to move has made move m, by the rules of chess
RuleMake(state, m) ==
    LET side == state.current_player
        own == IF side = 1 THEN WhiteBoards ELSE BlackBoards
        opp == IF side = 1 THEN BlackBoards ELSE WhiteBoards
        taken == IF m.is_en_passant = 1 THEN {m.to - 8 * side} ELSE {m.to}
        rookFrom == IF m.to > m.from THEN m.from + 3 ELSE m.from - 4
        rookTo == IF m.to > m.from THEN m.from + 1 ELSE m.from - 1
        Own(name) ==
            LET moved == IF m.from \in state[name]
                         THEN (state[name] \ {m.from}) \cup {m.to}
                         ELSE state[name]
            IN  IF m.is_castling = 1 /\ rookFrom \in moved
                   /\ name \in {"white_rooks", "black_rooks"}
                THEN (moved \ {rookFrom}) \cup {rookTo}
                ELSE moved
    IN  [name \in DOMAIN state |->
            IF \E i \in 1..6 : own[i] = name THEN Own(name)
            ELSE IF \E i \in 1..6 : opp[i] = name THEN state[name] \ taken
            ELSE state[name]]

\* the conditions of castling by the rules of chess: the king is not in
\* check, no square it crosses or lands on is attacked, and the squares
\* between king and rook are empty
RuleCastleOK(state, m) ==
    LET side == state.current_player
        rookFrom == IF m.to > m.from THEN m.from + 3 ELSE m.from - 4
    IN  /\ ~RuleInCheck(state, side)
        /\ \A sq \in Between(m.from, m.to) \cup {m.to} :
              ~RuleAttacked(state, sq, -side)
        /\ Between(m.from, rookFrom) \cap RuleOccupied(state) = {}

\* move m is legal in `state` by the rules of chess
RuleLegal(state, m) ==
    /\ ~RuleInCheck(RuleMake(state, m), state.current_player)
    /\ m.to \notin Pieces(state, -state.current_player, "kings")
    /\ m.is_castling = 1 => RuleCastleOK(state, m)

-----------------------------------------------------------------------------
(* Properties of move application *)

\* the side that made the last move
Mover == prev.current_player

\* C1: a position returned by chess_apply_move for a generated move never
\* has the king of the side that just moved attacked by an enemy piece
C1_MoverKingSafe ==
    outcome = "accepted" => ~RuleInCheck(pos, Mover)

\* C2: chess_apply_move returns NULL for a generated move only if the move
\* is illegal: a rejected move leaves the own king attacked, captures the
\* opposing king, or is a castling that breaks the castling conditions
C2_RejectedOnlyIfIllegal ==
    outcome = "rejected" => ~RuleLegal(prev, mv)

\* the castling-right flags of a side
SideRights(side) == IF side = 1 THEN {1, 2} ELSE {4, 8}

\* C5: after an accepted move of the mover's king (ordinary or castling)
\* both castling rights of the mover are cleared
C5_KingMoveClearsRights ==
    (outcome = "accepted" /\ mv.from \in Pieces(prev, Mover, "kings"))
        => pos.castling_rights \cap SideRights(Mover) = {}

\* the castling right that belongs to the rook of an original corner
CornerRight(sq) ==
    IF sq = 0 THEN 2 ELSE IF sq = 7 THEN 1 ELSE IF sq = 56 THEN 8 ELSE 4

WhiteCorners == {0, 7}

BlackCorners == {56, 63}

Corners(side) == IF side = 1 THEN WhiteCorners ELSE BlackCorners

\* C6: after an accepted move that takes a rook away from its original
\* corner, or captures a rook on its original corner, the castling right of
\* that corner is cleared
C6_RookMoveClearsRight ==
    outcome = "accepted" =>
        /\ (mv.from \in Corners(Mover) /\ mv.from \in Pieces(prev, Mover, "rooks"))
              => CornerRight(mv.from) \notin pos.castling_rights
        /\ (mv.to \in Corners(-Mover) /\ mv.to \in Pieces(prev, -Mover, "rooks"))
              => CornerRight(mv.to) \notin pos.castling_rights

\* the last move was a pawn advancing two ranks
DoublePush ==
    /\ mv.from \in Pieces(prev, Mover, "pawns")
    /\ mv.to - mv.from = 16 * Mover

\* C7: after an accepted double push en_passant is the skipped square
\* (from+8 for White, from-8 for Black); after any other accepted move it
\* is 255
C7_EnPassantTarget ==
    outcome = "accepted" =>
        pos.en_passant = IF DoublePush THEN mv.from + 8 * Mover ELSE EP_NONE

\* the king and rook squares a castling right speaks of
RightKing(right) == IF right \in {1, 2} THEN 4 ELSE 60

RightRook(right) ==
    IF right = 1 THEN 7 ELSE IF right = 2 THEN 0 ELSE IF right = 4 THEN 63 ELSE 56

RightSide(right) == IF right \in {1, 2} THEN 1 ELSE -1

\* the positions of a game begun in the initial position (the position
\* after 1. e4 e5 is two accepted moves away from it)
FromInitialPosition == start \in {initialize_board, KingsPawnOpening}

\* C8: in every position reached from the initial position by accepted
\* moves, a set castling right implies that the side's king is on e1/e8 and
\* its rook on the corner of that right
C8_RightsImplyHomeSquares ==
    FromInitialPosition =>
        \A right \in pos.castling_rights :
            /\ RightKing(right) \in Pieces(pos, RightSide(right), "kings")
            /\ RightRook(right) \in Pieces(pos, RightSide(right), "rooks")

\* the pawn attack relation as specified: a White pawn attacks sq iff sq-7
\* holds a White pawn and sq is off the a-file, or sq-9 holds one and sq is
\* off the h-file; for Black the same with sq+7 and sq+9
SpecifiedPawnAttack(state, sq, side) ==
    \/ (sq - 7 * side) \in Pieces(state, side, "pawns") /\ File(sq) # 0
    \/ (sq - 9 * side) \in Pieces(state, side, "pawns") /\ File(sq) # 7

\* C9: is_attacked_by_pawn answers the specified pawn attack relation for
\* every square and either colour
C9_PawnAttackQuery ==
    \A sq \in AllSquares : \A side \in {1, -1} :
        is_attacked_by_pawn(pos, sq, side) <=> SpecifiedPawnAttack(pos, sq, side)

\* C10: no generated castling move is accepted when the king is in check,
\* when a square the king crosses or lands on is attacked, or when a square
\* between king and rook is occupied
C10_NoUnsafeCastling ==
    (outcome = "accepted" /\ mv.is_castling = 1) => RuleCastleOK(prev, mv)

\* C11: a generated queenside castling whose king is not in check and whose
\* d-file and c-file back-rank squares are not attacked is accepted, whether
\* or not the b-file square, which only the rook crosses, is attacked
C11_QueensideIgnoresRookSquare ==
    (/\ outcome # "start"
     /\ mv.is_castling = 1
     /\ mv.to = mv.from - 2
     /\ ~RuleInCheck(prev, Mover)
     /\ ~RuleAttacked(prev, mv.from - 1, -Mover)
     /\ ~RuleAttacked(prev, mv.to, -Mover))
        => outcome = "accepted"

\* a position has exactly one king of each colour
OneKingEach(state) ==
    /\ Cardinality(state.white_kings) = 1
    /\ Cardinality(state.black_kings) = 1

AllBoards == WhiteBoards \o BlackBoards

\* no square holds two pieces
PairwiseDisjoint(state) ==
    \A i \in 1..12 : \A j \in (i + 1)..12 :
        state[AllBoards[i]] \cap state[AllBoards[j]] = {}

\* C13: a position returned by chess_apply_move for a generated move and a
\* position with pairwise disjoint bitboards has pairwise disjoint
\* bitboards, whatever the kind of the move
C13_BoardsDisjoint ==
    (outcome = "accepted" /\ PairwiseDisjoint(prev)) => PairwiseDisjoint(pos)

\* an accepted capture: the destination square held an enemy piece
C13_Witness ==
    /\ outcome = "accepted"
    /\ PairwiseDisjoint(prev)
    /\ mv.to \in RuleOccupied(prev)
    /\ PairwiseDisjoint(pos)

\* C14: chess_apply_move never modifies the position passed to it: when the
\* call returns, accepted or rejected, every field of the input position has
\* the value it had before, and a returned position is another object
C14_InputUntouched ==
    outcome # "start" =>
        /\ mem.state = prev
        /\ outcome = "accepted" => mem.returned = "new_state"
        /\ outcome = "rejected" => mem.returned = "NULL"

\* a rejected move of a piece other than the king: is_move_pinned has
\* simulated the position without the piece
C14_Witness ==
    /\ outcome = "rejected"
    /\ mv.from \notin Pieces(prev, Mover, "kings")
    /\ mem.state = prev
    /\ pos = prev

\* the last move moved a pawn or captured (en passant and promotion
\* included)
PawnMoveOrCapture ==
    \/ mv.from \in Pieces(prev, Mover, "pawns")
    \/ mv.to \in RuleOccupied(prev)
    \/ mv.is_en_passant = 1

\* C15: after an accepted move halfmove_clock is 0 for a pawn move or
\* capture and the input value plus one otherwise; fullmove_number is the
\* input value plus one if Black moved and unchanged if White moved
C15_Clocks ==
    outcome = "accepted" =>
        /\ pos.halfmove_clock =
              IF PawnMoveOrCapture THEN 0 ELSE prev.halfmove_clock + 1
        /\ pos.fullmove_number =
              IF Mover = -1 THEN prev.fullmove_number + 1
              ELSE prev.fullmove_number

-----------------------------------------------------------------------------
(* Properties of the search *)

RootState == heap[RootObject].val

\* the value of a state searched with the full window and no table
FullWindowValue(s, depth) == minimax_ab_no_cache(gd, s, depth, INT_MIN, INT_MAX)

\* C3: minimax_ab with the full window and an initially empty table
\* returns the value that minimax_ab returns without a table
C3_TableKeepsValue ==
    (phase = "done" /\ api = "minimax_ab" /\ cache_handle = "table")
        => result = FullWindowValue(RootState, root_depth)

\* C4: the move returned by get_best_move leads to a position whose
\* full-window value at depth-1 is the full-window value of the root at
\* depth
C4_BestMoveHasRootValue ==
    (phase = "done" /\ api = "get_best_move" /\ result # NULL_MOVE)
        => FullWindowValue(gd_apply_move(gd, RootState, result), root_depth - 1)
              = FullWindowValue(RootState, root_depth)

\* no move of the list of state s yields a state: apply_move returns NULL
\* for each of them
NoMoveApplies(s) ==
    LET moves == gd_get_moves(gd, s)
    IN  \A i \in 1..Len(moves) : gd_apply_move(gd, s, moves[i]) = NULL_STATE

\* C16: get_best_move returns NULL when the state is terminal, when its
\* move list is empty, or when no move of the list yields a non-NULL state
C16_NoMoveReturnsNull ==
    (/\ phase = "done"
     /\ api = "get_best_move"
     /\ \/ gd_is_terminal(gd, RootState)
        \/ Len(gd_get_moves(gd, RootState)) = 0
        \/ NoMoveApplies(RootState))
        => result = NULL_MOVE

\* get_best_move has returned NULL for a state that is not terminal and has
\* moves, none of which could be applied
C16_Witness ==
    /\ phase = "done"
    /\ api = "get_best_move"
    /\ ~gd_is_terminal(gd, RootState)
    /\ Len(gd_get_moves(gd, RootState)) > 0
    /\ NoMoveApplies(RootState)
    /\ result = NULL_MOVE

-----------------------------------------------------------------------------
(* Properties of hashing *)

\* C17: once the Zobrist keys are initialized, two positions that
\* chess_equals_state reports equal have the same chess_hash_state
C17_EqualStatesHashEqual ==
    (/\ hash_p.called /\ hash_p.initialized = 1
     /\ hash_q.called /\ hash_q.initialized = 1
     /\ chess_equals_state(state_p, state_q) = 1)
    => hash_p.value = hash_q.value

\* equal positions hashed with initialized keys, one before and one after a
\* further call of chess_hash_init
C17_Witness ==
    /\ hash_p.called /\ hash_p.initialized = 1
    /\ hash_q.called /\ hash_q.initialized = 1
    /\ chess_equals_state(state_p, state_q) = 1
    /\ hash_p.value # {}
    /\ hash_q.value = chess_hash_state(zobrist, state_q)

\* C27: the clone chess_copy_state(p) is equal to p for chess_equals_state
\* and has the hash of p, both as chess_hash_state computes them now and as
\* it returned them under the same state of the keys
C27_CloneEqualAndSameHash ==
    copied =>
        /\ chess_equals_state(state_q, state_p) = 1
        /\ chess_hash_state(zobrist, state_q) = chess_hash_state(zobrist, state_p)
        /\ (hash_p.called /\ hash_q.called
               /\ hash_p.initialized = hash_q.initialized)
            => hash_q.value = hash_p.value

\* a position with an en-passant square has been copied and both objects
\* hashed with initialized keys
C27_Witness ==
    /\ copied
    /\ state_p.en_passant # EP_NONE
    /\ hash_p.called /\ hash_p.initialized = 1
    /\ hash_q.called /\ hash_q.initialized = 1
    /\ hash_q.value # {}

-----------------------------------------------------------------------------
(* Properties of the hash table *)

\* the objects an int key may live in
KeyObjects == {"k1", "k4", "k5", "key_ptr", "missing", "tk"}

\* the list has a node whose key the equality callback reports equal to key
HasEqual(list, key) == \E j \in 1..Len(list) : equals_int(list[j].key, key) # 0

\* C18: after cache_store(k, v), cache_lookup returns v for every key equal
\* to k; a store of a key equal to one already present replaces that node's
\* value in place and adds no node, any other store prepends exactly one node
\* to the key's bucket; no other bucket changes
C18_StoreThenLookup ==
    last_op.op = "store" =>
        LET key == last_op.key
            index == int_bucket_index(key)
            old == BucketOf(cache_before, index)
            new == BucketOf(int_cache, index)
        IN  /\ \A obj \in KeyObjects :
                  cache_lookup_int(int_cache, KeyPtr(obj, key.val)) = last_op.value
            /\ \A b \in (DOMAIN cache_before \cup DOMAIN int_cache) \ {index} :
                  BucketOf(int_cache, b) = BucketOf(cache_before, b)
            /\ IF HasEqual(old, key)
               THEN /\ Len(new) = Len(old)
                    /\ \A j \in 1..Len(old) :
                          /\ new[j].key = old[j].key
                          /\ new[j].value = IF equals_int(old[j].key, key) # 0
                                            THEN last_op.value ELSE old[j].value
               ELSE new = <<[key |-> key, value |-> last_op.value]>> \o old

\* a value replaced through another key object, in a bucket of two nodes
C18_Witness ==
    /\ last_op.op = "store"
    /\ LET old == BucketOf(cache_before, int_bucket_index(last_op.key))
           new == BucketOf(int_cache, int_bucket_index(last_op.key))
       IN  /\ Len(old) = 2
           /\ HasEqual(old, last_op.key)
           /\ new[2].key # last_op.key
           /\ new[2].value = last_op.value
           /\ old[2].value # last_op.value

\* C19: with more distinct keys stored than the table has buckets, every
\* stored key is found with the value last stored for it, and a key never
\* stored yields NULL
C19_MoreKeysThanBuckets ==
    Cardinality(DOMAIN stored) > INITIAL_CAPACITY =>
        /\ \A v \in DOMAIN stored :
              cache_lookup_int(int_cache, KeyPtr("tk", v)) = stored[v]
        /\ \A v \in {-1, BulkKeys + 1, BulkKeys + INITIAL_CAPACITY} :
              cache_lookup_int(int_cache, KeyPtr("tk", v)) = NULL
        /\ last_op.op = "lookup" =>
              last_op.result = IF last_op.key.val \in DOMAIN stored
                               THEN stored[last_op.key.val] ELSE NULL

\* key 0, stored again after the loop, found behind key 1024 in bucket 0
C19_Witness ==
    /\ Cardinality(DOMAIN stored) > INITIAL_CAPACITY
    /\ last_op.op = "lookup"
    /\ last_op.key.val = 0
    /\ last_op.result = ValuePtr("NewAnswer", 0)
    /\ Len(BucketOf(int_cache, 0)) >= 2
    /\ equals_int(BucketOf(int_cache, 0)[1].key, last_op.key) = 0

\* the (key, value) pairs in the table
Pairs(tbl) == UNION {{tbl[b][j] : j \in 1..Len(tbl[b])} : b \in DOMAIN tbl}

\* C20: an iterator over a table that is not modified returns every stored
\* pair exactly once, and once it has returned 0 it returns 0 on every call
C20_IteratorVisitsEachOnce ==
    iter.created =>
        /\ \A i, j \in 1..Len(iter.seen) : iter.seen[i] = iter.seen[j] => i = j
        /\ \A i \in 1..Len(iter.seen) : iter.seen[i] \in Pairs(int_cache)
        /\ iter.exhausted =>
              /\ iter.ret = 0
              /\ {iter.seen[i] : i \in 1..Len(iter.seen)} = Pairs(int_cache)

\* the iterator has gone through a bucket of two nodes and two buckets of
\* one, the last bucket among them, and has been called again afterwards
C20_Witness ==
    /\ iter.created
    /\ iter.exhausted
    /\ iter.extra = MaxExtraNext
    /\ Len(iter.seen) = 4
    /\ Len(BucketOf(int_cache, 42)) = 2
    /\ BucketOf(int_cache, INITIAL_CAPACITY - 1) # <<>>

-----------------------------------------------------------------------------
(* Properties of move generation *)

\* the moves chess_get_moves returned that satisfy Wanted, as a set
Returned(Wanted(_)) == {gen.moves[i] : i \in {j \in 1..Len(gen.moves) : Wanted(gen.moves[j])}}

\* how many of the returned moves satisfy Wanted
Count(Wanted(_)) == Cardinality({j \in 1..Len(gen.moves) : Wanted(gen.moves[j])})

MoverPawns(state) ==
    IF state.current_player = 1 THEN state.white_pawns ELSE state.black_pawns

IsEnPassant(m) == m.is_en_passant = 1

\* the pawns of the side to move on rank 4 (White) or rank 3 (Black) in a
\* file next to the en-passant square's
EnPassantCapturers(state) ==
    {f \in MoverPawns(state) :
        /\ state.en_passant # EP_NONE
        /\ f \div 8 = (IF state.current_player = 1 THEN 4 ELSE 3)
        /\ Abs((f % 8) - (state.en_passant % 8)) = 1}

\* the en-passant square lies on the rank directly ahead of the capturers
EnPassantAhead(state) ==
    state.en_passant \div 8 = (IF state.current_player = 1 THEN 5 ELSE 2)

\* an en-passant capture to the en-passant square from each of the pawns
EnPassantFrom(state, pawns) ==
    {Move(from, state.en_passant, 0, 0, 1) : from \in pawns}

\* C21 as stated: the moves flagged is_en_passant are exactly one from every
\* pawn on rank 4 (White) or rank 3 (Black) next to the en-passant square's
\* file, whenever en_passant is set
C21_EnPassantByFileOnly ==
    gen.called =>
        Returned(IsEnPassant) = EnPassantFrom(gen.state, EnPassantCapturers(gen.state))

\* C21: the moves flagged is_en_passant are exactly one from every such pawn
\* when the en-passant square is on the rank directly ahead of it, and none
\* otherwise; each is emitted once
C21_EnPassantEmitted ==
    gen.called =>
        LET wanted == IF EnPassantAhead(gen.state)
                      THEN EnPassantFrom(gen.state, EnPassantCapturers(gen.state))
                      ELSE {}
        IN  /\ Returned(IsEnPassant) = wanted
            /\ Count(IsEnPassant) = Cardinality(wanted)

\* two pawns capture en passant on the same square
C21_Witness ==
    /\ gen.called
    /\ Count(IsEnPassant) = 2
    /\ EnPassantAhead(gen.state)

IsCastling(m) == m.is_castling = 1

\* the side to move's king home square, and per wing the castling right,
\* the squares between king and rook and the king's destination
CastlingWings(state) ==
    IF state.current_player = 1
    THEN {[home |-> 4, right |-> 1, path |-> {5, 6}, to |-> 6],
          [home |-> 4, right |-> 2, path |-> {1, 2, 3}, to |-> 2]}
    ELSE {[home |-> 60, right |-> 4, path |-> {61, 62}, to |-> 62],
          [home |-> 60, right |-> 8, path |-> {57, 58, 59}, to |-> 58]}

MoverKings(state) ==
    IF state.current_player = 1 THEN state.white_kings ELSE state.black_kings

\* the wings on which C22 asks for a castling move
CastlingOpen(state) ==
    {w \in CastlingWings(state) :
        /\ w.home \in MoverKings(state)
        /\ w.right \in state.castling_rights
        /\ w.path \cap compute_all_occ(state) = {}}

\* C22: the moves flagged is_castling are exactly the king's two-square moves
\* toward the rook on the wings where the king is on its original square,
\* the right is set and the squares between king and rook are empty; each is
\* emitted once
C22_CastlingEmitted ==
    gen.called =>
        LET wanted == {Move(w.home, w.to, 0, 1, 0) : w \in CastlingOpen(gen.state)}
        IN  /\ Returned(IsCastling) = wanted
            /\ Count(IsCastling) = Cardinality(wanted)

\* both rights are set and the king is at home, one wing is blocked by an
\* opposing piece only and the other castling move is emitted
C22_Witness ==
    /\ gen.called
    /\ Count(IsCastling) = 1
    /\ \E w \in CastlingWings(gen.state) :
            /\ w.home \in MoverKings(gen.state)
            /\ w.right \in gen.state.castling_rights
            /\ w \notin CastlingOpen(gen.state)
            /\ w.path \cap (IF gen.state.current_player = 1
                             THEN compute_white_occ(gen.state)
                             ELSE compute_black_occ(gen.state)) = {}

\* the pawn pushes and pawn captures of the side to move that end on the last
\* rank, as <<from, to>>
PromotionSteps(state) ==
    LET side == state.current_player
        last_rank == IF side = 1 THEN 7 ELSE 0
        opposing == IF side = 1 THEN compute_black_occ(state)
                    ELSE compute_white_occ(state)
        Reach(f) ==
            {t \in {f + 8 * side} : t \notin compute_all_occ(state)}
            \cup {t \in {f + 8 * side - 1, f + 8 * side + 1} :
                    /\ t \in 0..63
                    /\ Abs((t % 8) - (f % 8)) = 1
                    /\ t \in opposing}
    IN  {ft \in MoverPawns(state) \X (0..63) :
            ft[2] \in Reach(ft[1]) /\ ft[2] \div 8 = last_rank}

\* C23: each of them is returned as exactly four moves, one per promotion
\* piece (1 knight, 2 bishop, 3 rook, 4 queen) and none untagged
C23_FourPromotions ==
    gen.called =>
        \A ft \in PromotionSteps(gen.state) :
            /\ Count(LAMBDA m : m.from = ft[1] /\ m.to = ft[2]) = 4
            /\ \A piece \in 1..4 :
                    Count(LAMBDA m : m = Move(ft[1], ft[2], piece, 0, 0)) = 1

\* a pawn promotes by a push and by a capture to either side
C23_Witness ==
    /\ gen.called
    /\ Cardinality(PromotionSteps(gen.state)) = 3
    /\ Count(LAMBDA m : m.promotion # 0) = 12

\* the squares holding a piece of the side to move
MoverOcc(state) ==
    IF state.current_player = 1 THEN compute_white_occ(state)
    ELSE compute_black_occ(state)

\* C24: every returned move starts on a square holding a piece of the side to
\* move and ends on a square not holding one
C24_MovesOfSideToMove ==
    gen.called =>
        \A i \in 1..Len(gen.moves) :
            /\ gen.moves[i].from \in MoverOcc(gen.state)
            /\ gen.moves[i].to \notin MoverOcc(gen.state)

\* a sliding piece of the side to move is stopped by a piece of its own side,
\* and one of the returned moves captures
C24_Witness ==
    /\ gen.called
    /\ \E i \in 1..Len(gen.moves) :
            gen.moves[i].to \in compute_all_occ(gen.state) \ MoverOcc(gen.state)
    /\ \E from \in MoverOcc(gen.state), shift \in {1, -1, 8, -8} :
            /\ from + shift \in MoverOcc(gen.state)
            /\ Abs(((from + shift) % 8) - (from % 8)) <= 1
            /\ from \in IF gen.state.current_player = 1
                         THEN gen.state.white_rooks \cup gen.state.white_queens
                         ELSE gen.state.black_rooks \cup gen.state.black_queens

\* C26: from the standard opening position with White to move,
\* chess_get_moves returns exactly 20 moves
C26_TwentyOpeningMoves ==
    (gen.called /\ gen.state = initialize_board) => Len(gen.moves) = 20

\* the generator has run on the opening position: sixteen pawn moves and four
\* knight moves
C26_Witness ==
    /\ gen.called
    /\ gen.state = initialize_board
    /\ gen.state.current_player = 1
    /\ Count(LAMBDA m : m.from \in gen.state.white_pawns) = 16
    /\ Count(LAMBDA m : m.from \in gen.state.white_knights) = 4

\* no generated move of the position is accepted by chess_apply_move
NoMoveAccepted(state) ==
    \A i \in 1..Len(chess_get_moves(state)) :
        chess_apply_move(state, chess_get_moves(state)[i]) = NULL

\* C25: in a position where no generated move is accepted, chess_evaluate
\* returns -99999 if White's king is in check, otherwise +99999 if Black's
\* king is in check, otherwise 0
C25_TerminalValue ==
    (gen.evaluated /\ NoMoveAccepted(gen.state)) =>
        gen.value = IF RuleInCheck(gen.state, 1) THEN -99999
                    ELSE IF RuleInCheck(gen.state, -1) THEN 99999
                    ELSE 0

-----------------------------------------------------------------------------
(* Properties of the table during a search *)

\* the nodes of the table, each with the object its key points to, the entry
\* stored in it and the state that object was allocated for
TableNodes ==
    UNION {{[key |-> buckets[b][j].key, stored |-> buckets[b][j].stored,
             state |-> heap[buckets[b][j].key].val] :
                j \in 1..Len(buckets[b])} : b \in DOMAIN buckets}

\* C28: every key held by the table points to a state that is still
\* allocated
C28_KeysOutliveEntries == \A node \in TableNodes : heap[node.key].live

\* C29: a minimax_ab call that returns from its table lookup, without
\* searching or storing, returns the value of an entry stored for its state
\* with at least its depth
C29_LookupYieldsStored ==
    [][(/\ Running("minimax_ab", "enter")
        /\ cache_handle = "table"
        /\ Len(stack') < Len(stack)
        /\ buckets' = buckets)
       => \E node \in TableNodes :
             /\ node.state = Top.state
             /\ node.stored.depth >= Top.depth
             /\ node.stored.value = ret']_vars

\* C30: every entry stored with type EXACT and depth d holds the value of its
\* key state searched to depth d with the full window and no table
C30_ExactEntriesAreTrue ==
    \A node \in TableNodes :
        node.stored.type = "EXACT"
            => node.stored.value = FullWindowValue(node.state, node.stored.depth)

-----------------------------------------------------------------------------
(* Properties of the search without a table *)

\* the states apply_move returns for the moves of s, in the order of the moves
AcceptedChildren(g, s) ==
    SelectSeq([k \in 1..Len(gd_get_moves(g, s)) |->
                  gd_apply_move(g, s, gd_get_moves(g, s)[k])],
              LAMBDA child : child # NULL_STATE)

RECURSIVE PlainMinimax(_, _, _)
\* depth-limited minimax without a window: evaluate at terminal states, at
\* depth 0 and at states without moves, otherwise the maximum (player +1) or
\* minimum (player -1) over the accepted moves; over no accepted move these
\* are INT_MIN and INT_MAX
PlainMinimax(g, s, depth) ==
    IF gd_is_terminal(g, s) \/ depth = 0 \/ Len(gd_get_moves(g, s)) = 0
    THEN gd_evaluate(g, s)
    ELSE LET children == AcceptedChildren(g, s)
             values == {PlainMinimax(g, children[k], depth - 1) :
                          k \in 1..Len(children)}
         IN  IF gd_player_to_move(g, s) = 1
             THEN CHOOSE v \in values \cup {INT_MIN} :
                     \A w \in values \cup {INT_MIN} : v >= w
             ELSE CHOOSE v \in values \cup {INT_MAX} :
                     \A w \in values \cup {INT_MAX} : v <= w

\* C31: without a table and with the full window, minimax_ab returns the
\* value of plain depth-limited minimax
C31_PruningKeepsRootValue ==
    (phase = "done" /\ api = "minimax_ab" /\ cache_handle = "NULL")
        => result = PlainMinimax(gd, RootState, root_depth)

\* a search without a table has left a move loop by a cutoff, with a move of
\* the list not yet tried
C31_Witness ==
    /\ api = "minimax_ab"
    /\ cache_handle = "NULL"
    /\ Running("minimax_ab", "finish")
    /\ Top.i < Len(gd_get_moves(gd, Top.state))
    /\ gd_apply_move(gd, Top.state, gd_get_moves(gd, Top.state)[Top.i + 1])
           # NULL_STATE

-----------------------------------------------------------------------------
(* Properties of what the search stores *)

\* the window the activation on top of the stack was called with: the
\* caller's alpha and beta at the call, the full window for the first call
CalledWindow ==
    IF Len(stack) = 1 THEN [alpha |-> INT_MIN, beta |-> INT_MAX]
    ELSE [alpha |-> stack[Len(stack) - 1].alpha,
          beta |-> stack[Len(stack) - 1].beta]

\* C32: when minimax_ab finishes a node that has moves with best value b, it
\* stores {b, depth, type} for its state, the type being UPPER_BOUND if b is
\* at most the alpha it was called with, otherwise LOWER_BOUND if b is at
\* least the beta it was called with, otherwise EXACT
C32_StoredType ==
    [][(LoopDone("minimax_ab") /\ cache_handle = "table")
       => LET b == Top.best_value
              type == IF b <= CalledWindow.alpha THEN "UPPER_BOUND"
                      ELSE IF b >= CalledWindow.beta THEN "LOWER_BOUND"
                      ELSE "EXACT"
              index == get_bucket_index(gd_hash_state(gd, Top.state),
                                        INITIAL_CAPACITY)
          IN  /\ index \in DOMAIN buckets'
              /\ \E j \in 1..Len(buckets'[index]) :
                    buckets'[index][j].stored = Entry(b, Top.depth, type)]_vars

\* nodes with moves have been stored as a bound and as an exact value
C32_Witness ==
    /\ \E node \in TableNodes :
          node.stored.depth >= 1 /\ node.stored.type = "UPPER_BOUND"
    /\ \E node \in TableNodes :
          node.stored.depth >= 1 /\ node.stored.type = "EXACT"

-----------------------------------------------------------------------------
(* Properties of the order of lookup, recursion and store *)

\* the objects apply_move has returned since the state of the activation on
\* top of the stack was made
MadeBelow(h) == {k \in DOMAIN h : k > Top.obj}

\* C33: in minimax_ab with a table, the lookup (at the entry of the
\* activation) comes before any move of the state is applied: no state has
\* been made from it yet; and the table changes only in a step in which the
\* activation returns, when the recursion on every child it made has
\* returned and the child has been released
C33_LookupFirstStoreLast ==
    [][/\ (cache_handle = "table" /\ Running("minimax_ab", "enter"))
           => (Top.i = 0 /\ MadeBelow(heap) = {})
       /\ Len(heap') > Len(heap) => Top.pc = "loop"
       /\ buckets' # buckets
           => /\ Top.fn = "minimax_ab"
              /\ Len(stack') = Len(stack) - 1
              /\ \A k \in MadeBelow(heap') : ~heap'[k].live
              /\ \A j \in 1..(Len(stack) - 1) : stack[j].pc = "call"]_vars

\* a lookup is about to happen for the second child of a state, while the
\* table already holds the entry of a state whose children were searched
C33_Witness ==
    /\ cache_handle = "table"
    /\ Running("minimax_ab", "enter")
    /\ Len(stack) >= 2
    /\ stack[Len(stack) - 1].i >= 1
    /\ \E node \in TableNodes : node.stored.depth >= 1

-----------------------------------------------------------------------------
(* Properties of the states the search makes and releases *)

\* the objects made by apply_move that have not been released
Held == {k \in DOMAIN heap : k # RootObject /\ heap[k].live}

\* the objects made by apply_move that an activation is searching or has
\* just got back from the recursion
InUse ==
    {stack[j].obj : j \in 1..Len(stack)}
        \cup {stack[j].new_state : j \in {i \in 1..Len(stack) :
                                               stack[i].pc = "resume"}}

\* C34: a state made by apply_move is released exactly once, in the step
\* after the recursion on it returned and before the next move is applied,
\* also when the loop is left on a cutoff; the state the search was called
\* with is never released
C34_ReleasedOnce ==
    [][/\ heap[RootObject].live /\ heap'[RootObject].live
       /\ Held \subseteq InUse
       /\ (phase = "running" /\ Top.pc = "resume")
           => /\ heap[Top.new_state].live
              /\ ~heap'[Top.new_state].live
       /\ \A k \in DOMAIN heap :
             (heap[k].live /\ ~heap'[k].live)
                => (Top.pc = "resume" /\ k = Top.new_state)
       /\ Len(heap') > Len(heap)
           => Held = {stack[j].obj : j \in 1..Len(stack)} \ {RootObject}
       /\ phase' = "done"
           => \A k \in DOMAIN heap' : heap'[k].live <=> k = RootObject]_vars

\* minimax_ab has left its loop on a cutoff and the state of the child that
\* caused it has been released
C34_Witness ==
    /\ Running("minimax_ab", "finish")
    /\ Top.i < Len(gd_get_moves(gd, Top.state))
    /\ Top.new_state \in DOMAIN heap
    /\ ~heap[Top.new_state].live
    /\ Held = {stack[j].obj : j \in 1..Len(stack)} \ {RootObject}

-----------------------------------------------------------------------------
(* Properties of the depth of the recursion *)

\* C37: when get_best_move or minimax_ab is called with depth >= 0, no
\* activation of minimax_ab has a negative depth, so that every path of the
\* recursion ends at a state searched with depth = 0
C37_DepthNeverNegative ==
    \A j \in 1..Len(stack) :
        stack[j].fn = "minimax_ab" => stack[j].depth >= 0

-----------------------------------------------------------------------------
(* Properties of the choice among moves of equal value *)

\* the positions in the move list of the root of the moves apply_move accepts
RootAccepted ==
    {i \in 1..Len(gd_get_moves(gd, RootState)) :
        gd_apply_move(gd, RootState, gd_get_moves(gd, RootState)[i])
            # NULL_STATE}

\* the value of the i-th move of the root: the full-window value of the
\* state it leads to, at depth - 1
RootMoveValue(i) ==
    FullWindowValue(gd_apply_move(gd, RootState,
                                  gd_get_moves(gd, RootState)[i]),
                    root_depth - 1)

\* i is a best accepted move for the player to move at the root
RootBest(i) ==
    /\ i \in RootAccepted
    /\ \A k \in RootAccepted :
          IF gd_player_to_move(gd, RootState) = 1
          THEN RootMoveValue(k) <= RootMoveValue(i)
          ELSE RootMoveValue(k) >= RootMoveValue(i)

-----------------------------------------------------------------------------
(* Properties of the move returned for extreme values *)

\* C38: for a state that is not terminal and has a move that apply_move
\* accepts, get_best_move returns a move, whatever the values of the states
\* searched, INT_MIN and INT_MAX included
C38_SomeMoveReturned ==
    (/\ phase = "done"
     /\ api = "get_best_move"
     /\ ~gd_is_terminal(gd, RootState)
     /\ RootAccepted # {})
        => result # NULL_MOVE

-----------------------------------------------------------------------------
(* Properties of the number of pieces *)

RECURSIVE SetBits(_, _, _)
\* the number of set bits over the first n bitboards of `boards`
SetBits(state, boards, n) ==
    IF n = 0 THEN 0
    ELSE Cardinality(state[boards[n]]) + SetBits(state, boards, n - 1)

\* the start positions that are reached from the initial position by
\* accepted moves
PlayedFromInitial ==
    start \in {initialize_board, KingsPawnOpening, RookLifted}

\* C35: an accepted move increases the number of pieces of neither side, and
\* an accepted castling move leaves the number of rooks of the mover as it
\* was
C35_NoPieceAppears ==
    (PlayedFromInitial /\ outcome = "accepted")
        => /\ SetBits(pos, WhiteBoards, 6) <= SetBits(prev, WhiteBoards, 6)
           /\ SetBits(pos, BlackBoards, 6) <= SetBits(prev, BlackBoards, 6)
           /\ mv.is_castling = 1
               => Cardinality(Pieces(pos, Mover, "rooks"))
                     = Cardinality(Pieces(prev, Mover, "rooks"))

-----------------------------------------------------------------------------
(* Properties of attack queries against the generated moves *)

\* the squares holding a piece of the side that is not to move
OpponentOcc(state) ==
    IF state.current_player = 1 THEN compute_black_occ(state)
    ELSE compute_white_occ(state)

\* C36: in a position without two pieces on one square, for the side to move
\* c and every square holding a piece of the other side,
\* is_square_attacked(p, sq, c) holds exactly if chess_get_moves returns a
\* move of c to that square
C36_AttackedIffCaptured ==
    (gen.called /\ PairwiseDisjoint(gen.state))
        => \A sq \in OpponentOcc(gen.state) :
              is_square_attacked(gen.state, sq, gen.state.current_player)
                 <=> \E i \in 1..Len(gen.moves) : gen.moves[i].to = sq

-----------------------------------------------------------------------------
(* Properties of moves that were not generated *)

\* C39: chess_apply_move returns NULL for a move whose from-square holds no
\* piece of the side to move, be it empty or held by the other side
C39_ForeignMoveRefused ==
    (gen.applied /\ gen.move.from \notin MoverOcc(gen.state))
        => gen.result = NULL

====
